---- MODULE Spec2Model ----
(***************************************************************************)
(* A model of wasmdump.py, a WebAssembly binary dumper.  The dump reads    *)
(* one file through a cursor (ReadData), and prints through dprint one     *)
(* left column of offsets and hex bytes beside one right column of         *)
(* annotations.                                                            *)
(*                                                                         *)
(* Bytes are integers 0..255 and byte strings are sequences of them.  A    *)
(* stream is the record of one ReadData cursor together with what the run  *)
(* has printed so far and the exception in flight:                         *)
(*   data, fpos, rpos   the fields of ReadData                             *)
(*   out                the dprint calls of the run, in order              *)
(*   err                the exception raised (NoErr while none)            *)
(*   rd, val, str, name the object the last read returned: its ReadData    *)
(*                      (fpos, data), its integer value, its characters,   *)
(*                      its type name                                      *)
(*   asm                the mnemonic the last instruction() returned       *)
(* A Python function that takes a stream becomes an operator from the      *)
(* stream before the call to the stream after it; once err is set every    *)
(* later operator leaves the stream alone, as a raised exception skips the *)
(* rest of the run.  A function is written as the composition of its      *)
(* statements: `x = stream.byte(); dprint(x.data, ...)` is                 *)
(* emit(byte(s), ...), where emit prints beside the bytes of the object    *)
(* just read.                                                              *)
(*                                                                         *)
(* Three specifications share the variables:                               *)
(*   Spec        main on one file, one step for each section               *)
(*   LebSpec     one cursor over one LEB128 encoding and one call of       *)
(*               leb128u() or leb128s(), on ints of Python's full width    *)
(*   CursorSpec  one cursor and any calls of its methods, and the two      *)
(*               calls main starts with                                    *)
(***************************************************************************)
EXTENDS Integers, Sequences, FiniteSets, TLC

\* file, rpos  the bytes of the cursor and its read position
\* out         what has been printed (the dump) or returned (the cursor alone)
\* err         the exception raised
\* pc          where the run is
\* arg         what a run of the cursor alone was started with; <<>> in a dump
VARIABLES file, rpos, out, pc, err, arg

vars == <<file, rpos, out, pc, err, arg>>

\* ------------------------------------------------------------------------
\* Bounds of the model

\* the longest section payload drawn byte by byte from PayloadBytes
MaxPayload == 3

\* the most instructions in a drawn expression body
MaxInstr == 3

\* ------------------------------------------------------------------------
\* Arithmetic on bytes

Min(a, b) == IF a < b THEN a ELSE b

Max(a, b) == IF a < b THEN b ELSE a

RECURSIVE Pow2(_)
Pow2(n) == IF n = 0 THEN 1 ELSE 2 * Pow2(n - 1)

\* v & mask for a mask that is one bit, 2^k
Bit(v, k) == (v \div Pow2(k)) % 2 = 1

\* bytes-per-row of the hex column (the default of -w)
BYTESW == 8

CeilDiv(a, b) == (a + b - 1) \div b

None == "None"

\* ------------------------------------------------------------------------
\* data_string, data_strings, decode_leb128u, decode_leb128s

\* one byte as data_string shows it: printable ASCII as itself, else '.'
data_char(c) == IF c >= 32 /\ c < 127 THEN c ELSE 46

data_string(data) == [i \in 1..Len(data) |-> data_char(data[i])]

RECURSIVE decode_leb128u(_)
decode_leb128u(data) ==
  IF data = <<>> THEN 0
  ELSE (data[1] % 128) + 128 * decode_leb128u(Tail(data))

decode_leb128s(data) ==
  LET val == decode_leb128u(data)
  IN IF Bit(data[Len(data)], 6) THEN val - Pow2(Len(data) * 7) ELSE val

\* ------------------------------------------------------------------------
\* Messages and dprint

NoErr == [exc |-> "", what |-> "", off |-> -1, data |-> <<>>]

\* A message: the format string (tag) with the values it interpolates.
\*   ind   leading spaces         idx, val  the integers shown
\*   name  the name shown         txt       the characters shown
\*   n     the number of right-column rows (a str is 1, a list its length)
\*   lvl   the indent_level instruction() was called with (-1 elsewhere)
M(tag) ==
  [ind |-> 0, tag |-> tag, idx |-> 0, val |-> 0, name |-> "", txt |-> <<>>,
   n |-> 1, lvl |-> -1]

Mi(ind, tag) == [M(tag) EXCEPT !.ind = ind]

Mv(ind, tag, val) == [M(tag) EXCEPT !.ind = ind, !.val = val]

Mx(ind, tag, idx, val) == [M(tag) EXCEPT !.ind = ind, !.idx = idx, !.val = val]

Mn(ind, tag, name) == [M(tag) EXCEPT !.ind = ind, !.name = name]

\* the message data_strings(data, indent) builds: one quoted row per BYTESW
Mstrings(ind, data) ==
  [M("data_strings") EXCEPT !.ind = ind, !.txt = data_string(data),
                            !.n = CeilDiv(Len(data), BYTESW)]

\* One dprint(data, message) call.  off = -1 and no bytes when data is None.
\* rows is the number of lines printed: the longer of the two columns.
Line(off, bytes, msg) ==
  [off |-> off, bytes |-> bytes,
   rows |-> Max(CeilDiv(Len(bytes), BYTESW), msg.n)] @@ msg

dprint(s, rd, msg) ==
  IF s.err # NoErr THEN s
  ELSE [s EXCEPT !.out = Append(@, Line(rd.fpos, rd.data, msg))]

\* dprint(None, message)
dprintNone(s, msg) ==
  IF s.err # NoErr THEN s
  ELSE [s EXCEPT !.out = Append(@, Line(-1, <<>>, msg))]

\* dprint(x.data, message) for the object x that s has just read
emit(s, msg) == dprint(s, s.rd, msg)

\* ... with a message that shows int(x)
emit_val(s, ind, tag) == emit(s, Mv(ind, tag, s.val))

\* ... with a message that shows a loop index and int(x)
emit_idx(s, ind, tag, idx) == emit(s, Mx(ind, tag, idx, s.val))

\* ... with a message that shows str(x), the name of the type code x
emit_name(s, ind, tag) == emit(s, [Mn(ind, tag, s.name) EXCEPT !.val = s.val])

\* ... with a message that shows int(x) and a name given
emit_named(s, ind, tag, name) == emit(s, [Mv(ind, tag, s.val) EXCEPT !.name = name])

\* ... with a message that shows str(x), the characters of the name x
emit_str(s, ind, tag) == emit(s, [Mi(ind, tag) EXCEPT !.txt = s.str])

\* ... with a message that shows the bytes read
emit_bytes(s, ind, tag) == emit(s, [Mi(ind, tag) EXCEPT !.txt = s.rd.data])

\* dprint(x, data_strings(x.data, indent))
emit_strings(s, ind) == emit(s, Mstrings(ind, s.rd.data))

\* raise: the exception class, what it is about, and the bytes it names
Raise(s, exc, what) ==
  IF s.err # NoErr THEN s
  ELSE [s EXCEPT !.err = [exc |-> exc, what |-> what, off |-> -1, data |-> <<>>]]

RaiseAt(s, exc, what, rd) ==
  IF s.err # NoErr THEN s
  ELSE [s EXCEPT !.err = [exc |-> exc, what |-> what, off |-> rd.fpos,
                          data |-> rd.data]]

\* ------------------------------------------------------------------------
\* ReadData

NoRd == [fpos |-> 0, data |-> <<>>]

\* ReadData(path, data, fpos), printing after o
Stream(data, fpos, o) ==
  [data |-> data, fpos |-> fpos, rpos |-> 0, out |-> o, err |-> NoErr,
   rd |-> NoRd, val |-> 0, str |-> <<>>, name |-> "", asm |-> ""]

remain(s) == Len(s.data) - s.rpos

\* read with the slip `fpos = self.fpos`: the offset of the cursor's start
read_from_base(s, size) ==
  IF s.err # NoErr THEN s
  ELSE LET data == SubSeq(s.data, s.rpos + 1, Min(s.rpos + size, Len(s.data)))
       IN [s EXCEPT !.rpos = @ + Len(data),
                    !.rd = [fpos |-> s.fpos, data |-> data]]

read(s, size) ==
  IF s.err # NoErr THEN s
  ELSE LET data == SubSeq(s.data, s.rpos + 1, Min(s.rpos + size, Len(s.data)))
       IN [s EXCEPT !.rpos = @ + Len(data),
                    !.rd = [fpos |-> s.fpos + s.rpos, data |-> data]]

\* `if len(data) != size: raise IOError`
load_check(r, size) ==
  IF Len(r.rd.data) # size THEN Raise(r, "IOError", "not enough data") ELSE r

load(s, size) == load_check(read(s, size), size)

\* reload that returns the bytes from p on and leaves the cursor at p
reload_rewound(s, p) ==
  IF s.err # NoErr THEN s
  ELSE [s EXCEPT !.rpos = p,
                 !.rd = [fpos |-> s.fpos + p, data |-> SubSeq(s.data, p + 1, s.rpos)]]

\* reload that leaves the first byte out: the span of the last field alone
reload_after_first(s, p) ==
  IF s.err # NoErr THEN s
  ELSE load([s EXCEPT !.rpos = p + 1], s.rpos - p - 1)

reload(s, p) ==
  IF s.err # NoErr THEN s
  ELSE load([s EXCEPT !.rpos = p], s.rpos - p)

\* Integer(data[0], data)
byte_value(r) == IF r.err # NoErr THEN r ELSE [r EXCEPT !.val = r.rd.data[1]]

byte(s) == byte_value(load(s, 1))

\* long that takes the bytes a short read is missing as 0
long_value_short(r) ==
  IF r.err # NoErr THEN r
  ELSE [r EXCEPT !.val = (IF Len(r.rd.data) >= 1 THEN r.rd.data[1] ELSE 0)
                         + 256 * (IF Len(r.rd.data) >= 2 THEN r.rd.data[2] ELSE 0)
                         + 65536 * (IF Len(r.rd.data) >= 3 THEN r.rd.data[3] ELSE 0)
                         + 16777216 * (IF Len(r.rd.data) >= 4 THEN r.rd.data[4] ELSE 0)]

\* data[0] | data[1] << 8 | ...: indexing a short read raises IndexError
long_value(r) ==
  IF r.err # NoErr THEN r
  ELSE IF Len(r.rd.data) < 4 THEN Raise(r, "IndexError", "index out of range")
  ELSE [r EXCEPT !.val = r.rd.data[1] + 256 * r.rd.data[2]
                         + 65536 * r.rd.data[3] + 16777216 * r.rd.data[4]]

long(s) == long_value(read(s, 4))

\* the position right after the first byte, from pos on, with a clear high
\* bit; 0 when the data ends first (dat[pos] raises IndexError)
RECURSIVE leb128_end(_, _)
leb128_end(dat, pos) ==
  IF pos >= Len(dat) THEN 0
  ELSE IF dat[pos + 1] >= 128 THEN leb128_end(dat, pos + 1)
  ELSE pos + 1

leb128(s) ==
  IF s.err # NoErr THEN s
  ELSE IF leb128_end(s.data, s.rpos) = 0
    THEN Raise(s, "IndexError", "index out of range")
  ELSE read(s, leb128_end(s.data, s.rpos) - s.rpos)

\* Integer(decode_leb128u(dat), dat)
leb128u_value(r) ==
  IF r.err # NoErr THEN r ELSE [r EXCEPT !.val = decode_leb128u(r.rd.data)]

leb128u(s) == leb128u_value(leb128(s))

leb128s_value(r) ==
  IF r.err # NoErr THEN r ELSE [r EXCEPT !.val = decode_leb128s(r.rd.data)]

leb128s(s) == leb128s_value(leb128(s))

\* codecs.decode(data): strict UTF-8.  The number of bytes of the well-formed
\* character that starts at b[i], 0 when none does.
utf8_charlen(b, i) ==
  LET n == Len(b)
      c == b[i]
      Cont(k) == i + k <= n /\ b[i + k] >= 128 /\ b[i + k] <= 191
      In(k, lo, hi) == i + k <= n /\ b[i + k] >= lo /\ b[i + k] <= hi
  IN IF c <= 127 THEN 1
     ELSE IF c >= 194 /\ c <= 223 THEN (IF Cont(1) THEN 2 ELSE 0)
     ELSE IF c = 224 THEN (IF In(1, 160, 191) /\ Cont(2) THEN 3 ELSE 0)
     ELSE IF c = 237 THEN (IF In(1, 128, 159) /\ Cont(2) THEN 3 ELSE 0)
     ELSE IF c >= 225 /\ c <= 239 THEN (IF Cont(1) /\ Cont(2) THEN 3 ELSE 0)
     ELSE IF c = 240 THEN (IF In(1, 144, 191) /\ Cont(2) /\ Cont(3) THEN 4 ELSE 0)
     ELSE IF c >= 241 /\ c <= 243 THEN (IF Cont(1) /\ Cont(2) /\ Cont(3) THEN 4 ELSE 0)
     ELSE IF c = 244 THEN (IF In(1, 128, 143) /\ Cont(2) /\ Cont(3) THEN 4 ELSE 0)
     ELSE 0

utf8_codepoint(b, i, k) ==
  IF k = 1 THEN b[i]
  ELSE IF k = 2 THEN (b[i] % 32) * 64 + (b[i + 1] % 64)
  ELSE IF k = 3 THEN (b[i] % 16) * 4096 + (b[i + 1] % 64) * 64 + (b[i + 2] % 64)
  ELSE (b[i] % 8) * 262144 + (b[i + 1] % 64) * 4096 + (b[i + 2] % 64) * 64
       + (b[i + 3] % 64)

\* the code points of b from b[i] on; <<-1>> at the end marks a decode error
RECURSIVE utf8_decode(_, _)
utf8_decode(b, i) ==
  IF i > Len(b) THEN <<>>
  ELSE LET k == utf8_charlen(b, i)
       IN IF k = 0 THEN <<-1>>
          ELSE <<utf8_codepoint(b, i, k)>> \o utf8_decode(b, i + k)

utf8_valid(cps) == cps = <<>> \/ cps[Len(cps)] # -1

\* String(codecs.decode(utf8.data), cnt.data), after
\* cnt.data.data += utf8.data: the String's data is the length prefix cnt
\* with the payload appended
utf8_string(u, cnt) ==
  IF u.err # NoErr THEN u
  ELSE IF ~utf8_valid(utf8_decode(u.rd.data, 1))
    THEN Raise(u, "UnicodeDecodeError", "utf-8")
  ELSE [u EXCEPT !.rd = [fpos |-> cnt.fpos, data |-> cnt.data \o u.rd.data],
                 !.str = utf8_decode(u.rd.data, 1)]

utf8_payload(cnt) == utf8_string(load(cnt, cnt.val), cnt.rd)

utf8(s) == utf8_payload(leb128u(s))

\* ------------------------------------------------------------------------
\* Types

NUMTYPE(code) ==
  CASE code = 127 -> "i32"
    [] code = 126 -> "i64"
    [] code = 125 -> "f32"
    [] code = 124 -> "f64"
    [] OTHER -> None

VECTYPE(code) == IF code = 123 THEN "v128" ELSE None

REFTYPE(code) ==
  CASE code = 112 -> "funcref"
    [] code = 111 -> "externref"
    [] OTHER -> None

\* VALTYPE = NUMTYPE | VECTYPE | REFTYPE
VALTYPE(code) ==
  IF NUMTYPE(code) # None THEN NUMTYPE(code)
  ELSE IF VECTYPE(code) # None THEN VECTYPE(code)
  ELSE REFTYPE(code)

FUNCTYPE(code) == IF code = 96 THEN "functype" ELSE None

MUTABILITY(mode) ==
  CASE mode = 0 -> "const"
    [] mode = 1 -> "var"
    [] OTHER -> None

IMPORT_MODE(mode) ==
  CASE mode = 0 -> "func"
    [] mode = 1 -> "table"
    [] mode = 2 -> "mem"
    [] mode = 3 -> "global"
    [] OTHER -> None

EXPORT_MODE(mode) == IMPORT_MODE(mode)

\* an unknown code gets the placeholder name '(valtype:0x..)', not an error
get_valtype(code) ==
  IF VALTYPE(code) # None THEN VALTYPE(code) ELSE "(valtype:0x)"

get_reftype(code) ==
  IF REFTYPE(code) # None THEN REFTYPE(code) ELSE "(reftype:0x)"

\* prefix is ind spaces and then the label pfx; a call whose prefix is spaces
\* alone has for pfx the name in braces of what its line shows
reference_type_name(code, ind, pfx) ==
  IF REFTYPE(code.val) = None
  THEN Raise(emit(code, Mn(ind, pfx, None)), "NotImplementedError", "unknown reftype")
  ELSE emit(code, Mn(ind, pfx, REFTYPE(code.val)))

reference_type(s, ind, pfx) == reference_type_name(leb128u(s), ind, pfx)

value_type_name(code, ind, pfx) ==
  IF VALTYPE(code.val) = None
  THEN Raise(emit(code, Mn(ind, pfx, None)), "NotImplementedError", "unknown valtype")
  ELSE emit(code, Mn(ind, pfx, VALTYPE(code.val)))

value_type(s, ind, pfx) == value_type_name(byte(s), ind, pfx)

RECURSIVE value_types(_, _, _)
value_types(s, n, ind) ==
  IF n = 0 \/ s.err # NoErr THEN s
  ELSE value_types(value_type(s, ind, "{valtype}"), n - 1, ind)

\* `for _ in range(vlen)` of result_type
result_type_values(p, ind) == value_types(p, p.val, ind + 2)

result_type(s, name, ind) ==
  result_type_values(emit_named(leb128u(s), ind, "[]", name), ind)

limits_max(q, mode, ind) ==
  IF mode = 1 THEN emit_val(leb128u(q), ind + 2, "max = ") ELSE q

limits_min(p, ind) ==
  IF p.err # NoErr THEN p
  ELSE IF p.val >= 2 THEN Raise(p, "NotImplementedError", "unknown limits")
  ELSE limits_max(emit_val(leb128u(p), ind + 2, "min = "), p.val, ind)

limits(s, ind) == limits_min(emit(byte(s), Mi(ind, "limits")), ind)

mutability_name(code, ind, pfx) ==
  IF MUTABILITY(code.val) = None
  THEN Raise(emit(code, Mn(ind, pfx, None)), "NotImplementedError", "unknown mutability")
  ELSE emit(code, Mn(ind, pfx, MUTABILITY(code.val)))

mutability(s, ind, pfx) == mutability_name(byte(s), ind, pfx)

\* String(get_valtype(int(code)), code.data)
valtype_string(code) ==
  IF code.err # NoErr THEN code ELSE [code EXCEPT !.name = get_valtype(code.val)]

read_valtype(s) == valtype_string(byte(s))

reftype_string(code) ==
  IF code.err # NoErr THEN code ELSE [code EXCEPT !.name = get_reftype(code.val)]

read_reftype(s) == reftype_string(byte(s))

\* ------------------------------------------------------------------------
\* The opcode table.  An entry is its operand kinds and its mnemonic; a
\* literal operand (the int 0 of the table) is written "#0".

NoIns == [ops |-> <<>>, asm |-> ""]

Ins(ops, asm) == [ops |-> ops, asm |-> asm]

DISASM_FC ==
  <<
    Ins(<<>>, "i32.trunc_sat_f32_s"),  \* 0x00
    Ins(<<>>, "i32.trunc_sat_f32_u"),
    Ins(<<>>, "i32.trunc_sat_f64_s"),
    Ins(<<>>, "i32.trunc_sat_f64_u"),
    Ins(<<>>, "i64.trunc_sat_f32_s"),
    Ins(<<>>, "i64.trunc_sat_f32_u"),
    Ins(<<>>, "i64.trunc_sat_f64_s"),
    Ins(<<>>, "i64.trunc_sat_f64_u"),
    Ins(<<"eid","#0">>, "memory.init"),
    Ins(<<"did">>, "data.drop"),
    Ins(<<"#0","#0">>, "memory.copy"),
    Ins(<<"#0">>, "memory.fill"),
    Ins(<<"eid","tid">>, "table.init"),
    Ins(<<"mid">>, "elem.drop"),
    Ins(<<"tid1","tid2">>, "table.copy"),
    Ins(<<"tid">>, "table.grow"),
    Ins(<<"tid">>, "table.size"),  \* 0x10
    Ins(<<"tid">>, "table.fill"),
    NoIns,
    NoIns,
    NoIns,
    NoIns,
    NoIns,
    NoIns,
    NoIns,
    NoIns,
    NoIns,
    NoIns,
    NoIns,
    NoIns,
    NoIns,
    NoIns,
    NoIns,  \* 0x20
    NoIns,
    NoIns,
    NoIns,
    NoIns,
    NoIns,
    NoIns,
    NoIns,
    NoIns,
    NoIns,
    NoIns,
    NoIns,
    NoIns,
    NoIns,
    NoIns,
    NoIns,
    NoIns,  \* 0x30
    NoIns,
    NoIns,
    NoIns,
    NoIns,
    NoIns,
    NoIns,
    NoIns,
    NoIns,
    NoIns,
    NoIns,
    NoIns,
    NoIns,
    NoIns,
    NoIns,
    NoIns,
    NoIns,  \* 0x40
    NoIns,
    NoIns,
    NoIns,
    NoIns,
    NoIns,
    NoIns,
    NoIns,
    NoIns,
    NoIns,
    NoIns,
    NoIns,
    NoIns,
    NoIns,
    NoIns,
    NoIns,
    NoIns,  \* 0x50
    NoIns,
    NoIns,
    NoIns,
    NoIns,
    NoIns,
    NoIns,
    NoIns,
    NoIns,
    NoIns,
    NoIns,
    NoIns,
    NoIns,
    NoIns,
    NoIns,
    NoIns,
    NoIns,  \* 0x60
    NoIns,
    NoIns,
    NoIns,
    NoIns,
    NoIns,
    NoIns,
    NoIns,
    NoIns,
    NoIns,
    NoIns,
    NoIns,
    NoIns,
    NoIns,
    NoIns,
    NoIns,
    NoIns,  \* 0x70
    NoIns,
    NoIns,
    NoIns,
    NoIns,
    NoIns,
    NoIns,
    NoIns,
    NoIns,
    NoIns,
    NoIns,
    NoIns,
    NoIns,
    NoIns,
    NoIns,
    NoIns,
    NoIns,  \* 0x80
    NoIns,
    NoIns,
    NoIns,
    NoIns,
    NoIns,
    NoIns,
    NoIns,
    NoIns,
    NoIns,
    NoIns,
    NoIns,
    NoIns,
    NoIns,
    NoIns,
    NoIns,
    NoIns,  \* 0x90
    NoIns,
    NoIns,
    NoIns,
    NoIns,
    NoIns,
    NoIns,
    NoIns,
    NoIns,
    NoIns,
    NoIns,
    NoIns,
    NoIns,
    NoIns,
    NoIns,
    NoIns,
    NoIns,  \* 0xA0
    NoIns,
    NoIns,
    NoIns,
    NoIns,
    NoIns,
    NoIns,
    NoIns,
    NoIns,
    NoIns,
    NoIns,
    NoIns,
    NoIns,
    NoIns,
    NoIns,
    NoIns,
    NoIns,  \* 0xB0
    NoIns,
    NoIns,
    NoIns,
    NoIns,
    NoIns,
    NoIns,
    NoIns,
    NoIns,
    NoIns,
    NoIns,
    NoIns,
    NoIns,
    NoIns,
    NoIns,
    NoIns,
    NoIns,  \* 0xC0
    NoIns,
    NoIns,
    NoIns,
    NoIns,
    NoIns,
    NoIns,
    NoIns,
    NoIns,
    NoIns,
    NoIns,
    NoIns,
    NoIns,
    NoIns,
    NoIns,
    NoIns,
    NoIns,  \* 0xD0
    NoIns,
    NoIns,
    NoIns,
    NoIns,
    NoIns,
    NoIns,
    NoIns,
    NoIns,
    NoIns,
    NoIns,
    NoIns,
    NoIns,
    NoIns,
    NoIns,
    NoIns,
    NoIns,  \* 0xE0
    NoIns,
    NoIns,
    NoIns,
    NoIns,
    NoIns,
    NoIns,
    NoIns,
    NoIns,
    NoIns,
    NoIns,
    NoIns,
    NoIns,
    NoIns,
    NoIns,
    NoIns,
    NoIns,  \* 0xF0
    NoIns,
    NoIns,
    NoIns,
    NoIns,
    NoIns,
    NoIns,
    NoIns,
    NoIns,
    NoIns,
    NoIns,
    NoIns,
    NoIns,
    NoIns,
    NoIns,
    NoIns
  >>

DISASM_FD ==
  <<
    Ins(<<"mao">>, "v128.load"),  \* 0x00
    Ins(<<"mao">>, "v128.load8x8_s"),
    Ins(<<"mao">>, "v128.load8x8_u"),
    Ins(<<"mao">>, "v128.load16x4_s"),
    Ins(<<"mao">>, "v128.load16x4_u"),
    Ins(<<"mao">>, "v128.load32x2_s"),
    Ins(<<"mao">>, "v128.load32x2_u"),
    Ins(<<"mao">>, "v128.load8_splat"),
    Ins(<<"mao">>, "v128.load16_splat"),
    Ins(<<"mao">>, "v128.load32_splat"),
    Ins(<<"mao">>, "v128.load64_splat"),
    Ins(<<"mao">>, "v128.store"),
    Ins(<<"vb16">>, "v128.const"),
    Ins(<<"vlt">>, "i8x16.shuffle"),
    Ins(<<>>, "i8x16.swizzle"),
    Ins(<<>>, "i8x16.splat"),
    Ins(<<>>, "i16x8.splat"),  \* 0x10
    Ins(<<>>, "i32x4.splat"),
    Ins(<<>>, "i64x2.splat"),
    Ins(<<>>, "f32x4.splat"),
    Ins(<<>>, "f64x2.splat"),
    Ins(<<"vl">>, "i8x16.extract_lane_s"),
    Ins(<<"vl">>, "i8x16.extract_lane_u"),
    Ins(<<"vl">>, "i8x16.replace_lane"),
    Ins(<<"vl">>, "i16x8.extract_lane_s"),
    Ins(<<"vl">>, "i16x8.extract_lane_u"),
    Ins(<<"vl">>, "i16x8.replace_lane"),
    Ins(<<"vl">>, "i32x4.extract_lane"),
    Ins(<<"vl">>, "i32x4.replace_lane"),
    Ins(<<"vl">>, "i64x2.extract_lane"),
    Ins(<<"vl">>, "i64x2.replace_lane"),
    Ins(<<"vl">>, "f32x4.extract_lane"),
    Ins(<<"vl">>, "f32x4.replace_lane"),  \* 0x20
    Ins(<<"vl">>, "f64x2.extract_lane"),
    Ins(<<"vl">>, "f64x2.replace_lane"),
    Ins(<<>>, "i8x16.eq"),
    Ins(<<>>, "i8x16.ne"),
    Ins(<<>>, "i8x16.lt_s"),
    Ins(<<>>, "i8x16.lt_u"),
    Ins(<<>>, "i8x16.gt_s"),
    Ins(<<>>, "i8x16.gt_u"),
    Ins(<<>>, "i8x16.le_s"),
    Ins(<<>>, "i8x16.le_u"),
    Ins(<<>>, "i8x16.ge_s"),
    Ins(<<>>, "i8x16.ge_u"),
    Ins(<<>>, "i16x8.eq"),
    Ins(<<>>, "i16x8.ne"),
    Ins(<<>>, "i16x8.lt_s"),
    Ins(<<>>, "i16x8.lt_u"),  \* 0x30
    Ins(<<>>, "i16x8.gt_s"),
    Ins(<<>>, "i16x8.gt_u"),
    Ins(<<>>, "i16x8.le_s"),
    Ins(<<>>, "i16x8.le_u"),
    Ins(<<>>, "i16x8.ge_s"),
    Ins(<<>>, "i16x8.ge_u"),
    Ins(<<>>, "i32x4.eq"),
    Ins(<<>>, "i32x4.ne"),
    Ins(<<>>, "i32x4.lt_s"),
    Ins(<<>>, "i32x4.lt_u"),
    Ins(<<>>, "i32x4.gt_s"),
    Ins(<<>>, "i32x4.gt_u"),
    Ins(<<>>, "i32x4.le_s"),
    Ins(<<>>, "i32x4.le_u"),
    Ins(<<>>, "i32x4.ge_s"),
    Ins(<<>>, "i32x4.ge_u"),  \* 0x40
    Ins(<<>>, "f32x4.eq"),
    Ins(<<>>, "f32x4.ne"),
    Ins(<<>>, "f32x4.lt"),
    Ins(<<>>, "f32x4.gt"),
    Ins(<<>>, "f32x4.le"),
    Ins(<<>>, "f32x4.ge"),
    Ins(<<>>, "f64x2.eq"),
    Ins(<<>>, "f64x2.ne"),
    Ins(<<>>, "f64x2.lt"),
    Ins(<<>>, "f64x2.gt"),
    Ins(<<>>, "f64x2.le"),
    Ins(<<>>, "f64x2.ge"),
    Ins(<<>>, "v128.not"),
    Ins(<<>>, "v128.and"),
    Ins(<<>>, "v128.andnot"),
    Ins(<<>>, "v128.or"),  \* 0x50
    Ins(<<>>, "v128.xor"),
    Ins(<<>>, "v128.bitselect"),
    Ins(<<>>, "v128.any_true"),
    Ins(<<"mao","vl">>, "v128.load8_lane"),
    Ins(<<"mao","vl">>, "v128.load16_lane"),
    Ins(<<"mao","vl">>, "v128.load32_lane"),
    Ins(<<"mao","vl">>, "v128.load64_lane"),
    Ins(<<"mao","vl">>, "v128.store8_lane"),
    Ins(<<"mao","vl">>, "v128.store16_lane"),
    Ins(<<"mao","vl">>, "v128.store32_lane"),
    Ins(<<"mao","vl">>, "v128.store64_lane"),
    Ins(<<"mao">>, "v128.load32_zero"),
    Ins(<<"mao">>, "v128.load64_zero"),
    Ins(<<>>, "f32x4.demote_f64x2_zero"),
    Ins(<<>>, "f64x2.promote_low_f32x4"),
    Ins(<<>>, "i8x16.abs"),  \* 0x60
    Ins(<<>>, "i8x16.neg"),
    Ins(<<>>, "i8x16.popcnt"),
    Ins(<<>>, "i8x16.all_true"),
    Ins(<<>>, "i8x16.bitmask"),
    Ins(<<>>, "i8x16.narrow_i16x8_s"),
    Ins(<<>>, "i8x16.narrow_i16x8_u"),
    Ins(<<>>, "f32x4.ceil"),
    Ins(<<>>, "f32x4.floor"),
    Ins(<<>>, "f32x4.trunc"),
    Ins(<<>>, "f32x4.nearest"),
    Ins(<<>>, "i8x16.shl"),
    Ins(<<>>, "i8x16.shr_s"),
    Ins(<<>>, "i8x16.shr_u"),
    Ins(<<>>, "i8x16.add"),
    Ins(<<>>, "i8x16.add_sat_s"),
    Ins(<<>>, "i8x16.add_sat_u"),  \* 0x70
    Ins(<<>>, "i8x16.sub"),
    Ins(<<>>, "i8x16.sub_sat_s"),
    Ins(<<>>, "i8x16.sub_sat_u"),
    Ins(<<>>, "f64x2.ceil"),
    Ins(<<>>, "f64x2.floor"),
    Ins(<<>>, "i8x16.min_s"),
    Ins(<<>>, "i8x16.min_u"),
    Ins(<<>>, "i8x16.max_s"),
    Ins(<<>>, "i8x16.max_u"),
    Ins(<<>>, "f64x2.trunc"),
    Ins(<<>>, "i8x16.avr_u"),
    Ins(<<>>, "i16x8.extadd_pairwise_i8x16_s"),
    Ins(<<>>, "i16x8.extadd_pairwise_i8x16_u"),
    Ins(<<>>, "i32x4.extadd_pairwise_i16x8_s"),
    Ins(<<>>, "i32x4.extadd_pairwise_i16x8_u"),
    Ins(<<>>, "i16x8.abs"),  \* 0x80
    Ins(<<>>, "i16x8.neg"),
    Ins(<<>>, "i16x8.q15mulr_sat_s"),
    Ins(<<>>, "i16x8.all_true"),
    Ins(<<>>, "i16x8.bitmask"),
    Ins(<<>>, "i16x8.narrow_i32x4_s"),
    Ins(<<>>, "i16x8.narrow_i32x4_u"),
    Ins(<<>>, "i16x8.extend_low_i8x16_s"),
    Ins(<<>>, "i16x8.extend_high_i8x16_s"),
    Ins(<<>>, "i16x8.extend_low_i8x16_u"),
    Ins(<<>>, "i16x8.extend_high_i8x16_u"),
    Ins(<<>>, "i16x8.shl"),
    Ins(<<>>, "i16x8.shr_s"),
    Ins(<<>>, "i16x8.shr_u"),
    Ins(<<>>, "i16x8.add"),
    Ins(<<>>, "i16x8.add_sat_s"),
    Ins(<<>>, "i16x8.add_sat_u"),  \* 0x90
    Ins(<<>>, "i16x8.sub"),
    Ins(<<>>, "i16x8.sub_sat_s"),
    Ins(<<>>, "i16x8.sub_sat_u"),
    Ins(<<>>, "f64x2.nearest"),
    Ins(<<>>, "i16x8.mul"),
    Ins(<<>>, "i16x8.min_s"),
    Ins(<<>>, "i16x8.min_u"),
    Ins(<<>>, "i16x8.max_s"),
    Ins(<<>>, "i16x8.max_u"),
    NoIns,
    Ins(<<>>, "i16x8.avr_u"),
    Ins(<<>>, "i16x8.extmul_low_i8x16_s"),
    Ins(<<>>, "i16x8.extmul_high_i8x16_s"),
    Ins(<<>>, "i16x8.extmul_low_i8x16_u"),
    Ins(<<>>, "i16x8.extmul_high_i8x16_u"),
    Ins(<<>>, "i32x4.abs"),  \* 0xA0
    Ins(<<>>, "i32x4.neg"),
    NoIns,
    Ins(<<>>, "i32x4.all_true"),
    Ins(<<>>, "i32x4.bitmask"),
    Ins(<<>>, "i32x4.narrow_i32x4_s"),
    Ins(<<>>, "i32x4.narrow_i32x4_u"),
    Ins(<<>>, "i32x4.extend_low_i16x8_s"),
    Ins(<<>>, "i32x4.extend_high_i16x8_s"),
    Ins(<<>>, "i32x4.extend_low_i16x8_u"),
    Ins(<<>>, "i32x4.extend_high_i16x8_u"),
    Ins(<<>>, "i32x4.shl"),
    Ins(<<>>, "i32x4.shr_s"),
    Ins(<<>>, "i32x4.shr_u"),
    Ins(<<>>, "i32x4.add"),
    NoIns,
    NoIns,  \* 0xB0
    Ins(<<>>, "i32x4.sub"),
    NoIns,
    NoIns,
    NoIns,
    Ins(<<>>, "i32x4.mul"),
    Ins(<<>>, "i32x4.min_s"),
    Ins(<<>>, "i32x4.min_u"),
    Ins(<<>>, "i32x4.max_s"),
    Ins(<<>>, "i32x4.max_u"),
    Ins(<<>>, "i32x4.dot_i16x8_s"),
    NoIns,
    Ins(<<>>, "i32x4.extmul_low_i16x8_s"),
    Ins(<<>>, "i32x4.extmul_high_i16x8_s"),
    Ins(<<>>, "i32x4.extmul_low_i16x8_u"),
    Ins(<<>>, "i32x4.extmul_high_i16x8_u"),
    Ins(<<>>, "i64x2.abs"),  \* 0xC0
    Ins(<<>>, "i64x2.neg"),
    NoIns,
    Ins(<<>>, "i64x2.all_true"),
    Ins(<<>>, "i64x2.bitmask"),
    NoIns,
    NoIns,
    Ins(<<>>, "i64x2.extend_low_i32x4_s"),
    Ins(<<>>, "i64x2.extend_high_i32x4_s"),
    Ins(<<>>, "i64x2.extend_low_i32x4_u"),
    Ins(<<>>, "i64x2.extend_high_i32x4_u"),
    Ins(<<>>, "i64x2.shl"),
    Ins(<<>>, "i64x2.shr_s"),
    Ins(<<>>, "i64x2.shr_u"),
    Ins(<<>>, "i64x2.add"),
    NoIns,
    NoIns,  \* 0xD0
    Ins(<<>>, "i64x2.sub"),
    NoIns,
    NoIns,
    NoIns,
    Ins(<<>>, "i64x2.mul"),
    Ins(<<>>, "i64x2.eq"),
    Ins(<<>>, "i64x2.ne"),
    Ins(<<>>, "i64x2.lt_s"),
    Ins(<<>>, "i64x2.gt_s"),
    Ins(<<>>, "i64x2.le_s"),
    Ins(<<>>, "i64x2.ge_s"),
    Ins(<<>>, "i64x2.extmul_low_i8x16_s"),
    Ins(<<>>, "i64x2.extmul_high_i8x16_s"),
    Ins(<<>>, "i64x2.extmul_low_i8x16_u"),
    Ins(<<>>, "i64x2.extmul_high_i8x16_u"),
    Ins(<<>>, "f32x4.abs"),  \* 0xE0
    Ins(<<>>, "f32x4.neg"),
    NoIns,
    Ins(<<>>, "f32x4.sqrt"),
    Ins(<<>>, "f32x4.add"),
    Ins(<<>>, "f32x4.sub"),
    Ins(<<>>, "f32x4.mul"),
    Ins(<<>>, "f32x4.div"),
    Ins(<<>>, "f32x4.min"),
    Ins(<<>>, "f32x4.max"),
    Ins(<<>>, "f32x4.pmin"),
    Ins(<<>>, "f32x4.pmax"),
    Ins(<<>>, "f64x2.abs"),
    Ins(<<>>, "f64x2.neg"),
    NoIns,
    Ins(<<>>, "f64x2.sqrt"),
    Ins(<<>>, "f64x2.add"),  \* 0xF0
    Ins(<<>>, "f64x2.sub"),
    Ins(<<>>, "f64x2.mul"),
    Ins(<<>>, "f64x2.div"),
    Ins(<<>>, "f64x2.min"),
    Ins(<<>>, "f64x2.max"),
    Ins(<<>>, "f64x2.pmin"),
    Ins(<<>>, "f64x2.pmax"),
    Ins(<<>>, "i32x4.trunc_sat_f32x4_s"),
    Ins(<<>>, "i32x4.trunc_sat_f32x4_u"),
    Ins(<<>>, "f32x4.convert_i32x4_s"),
    Ins(<<>>, "f32x4.convert_i32x4_u"),
    Ins(<<>>, "i32x4.trunc_sat_f64x2_s_zero"),
    Ins(<<>>, "i32x4.trunc_sat_f64x2_u_zero"),
    Ins(<<>>, "f64x2.convert_low_i32x4_s"),
    Ins(<<>>, "f64x2.convert_low_i32x4_u")
  >>

DISASM ==
  <<
    Ins(<<>>, "unreachable"),  \* 0x00
    Ins(<<>>, "nop"),
    Ins(<<"bt">>, "block"),
    Ins(<<"bt">>, "loop"),
    Ins(<<"bt">>, "if"),
    Ins(<<>>, "else"),
    NoIns,
    NoIns,
    NoIns,
    NoIns,
    NoIns,
    Ins(<<>>, "end"),
    Ins(<<"lid">>, "br"),
    Ins(<<"lid">>, "br_if"),
    Ins(<<"lid+">>, "br_table"),
    Ins(<<>>, "return"),
    Ins(<<"fid">>, "call"),  \* 0x10
    Ins(<<"xid","tid">>, "call_indirect"),
    NoIns,
    NoIns,
    NoIns,
    NoIns,
    NoIns,
    NoIns,
    NoIns,
    NoIns,
    Ins(<<>>, "drop"),
    Ins(<<>>, "select"),
    Ins(<<"t+">>, "select"),
    NoIns,
    NoIns,
    NoIns,
    Ins(<<"lid">>, "local.get"),  \* 0x20
    Ins(<<"lid">>, "local.set"),
    Ins(<<"lid">>, "local.tee"),
    Ins(<<"gid">>, "global.get"),
    Ins(<<"gid">>, "global.set"),
    Ins(<<"tid">>, "table.get"),
    Ins(<<"tid">>, "table.set"),
    NoIns,
    Ins(<<"mao">>, "i32.load"),
    Ins(<<"mao">>, "i64.load"),
    Ins(<<"mao">>, "f32.load"),
    Ins(<<"mao">>, "f64.load"),
    Ins(<<"mao">>, "i32.load8_s"),
    Ins(<<"mao">>, "i32.load8_u"),
    Ins(<<"mao">>, "i32.load16_s"),
    Ins(<<"mao">>, "i32.load16_u"),
    Ins(<<"mao">>, "i64.load8_s"),  \* 0x30
    Ins(<<"mao">>, "i64.load8_u"),
    Ins(<<"mao">>, "i64.load16_s"),
    Ins(<<"mao">>, "i64.load16_u"),
    Ins(<<"mao">>, "i64.load32_s"),
    Ins(<<"mao">>, "i64.load32_u"),
    Ins(<<"mao">>, "i32.store"),
    Ins(<<"mao">>, "i64.store"),
    Ins(<<"mao">>, "f32.store"),
    Ins(<<"mao">>, "f64.store"),
    Ins(<<"mao">>, "i32.store8"),
    Ins(<<"mao">>, "i32.store16"),
    Ins(<<"mao">>, "i64.store8"),
    Ins(<<"mao">>, "i64.store16"),
    Ins(<<"mao">>, "i64.store32"),
    Ins(<<"#0">>, "memory.size"),
    Ins(<<"#0">>, "memory.grow"),  \* 0x40
    Ins(<<"i32">>, "i32.const"),
    Ins(<<"i64">>, "i64.const"),
    Ins(<<"f32">>, "f32.const"),
    Ins(<<"f64">>, "f64.const"),
    Ins(<<>>, "i32.eqz"),
    Ins(<<>>, "i32.eq"),
    Ins(<<>>, "i32.ne"),
    Ins(<<>>, "i32.lt_s"),
    Ins(<<>>, "i32.lt_u"),
    Ins(<<>>, "i32.gt_s"),
    Ins(<<>>, "i32.gt_u"),
    Ins(<<>>, "i32.le_s"),
    Ins(<<>>, "i32.le_u"),
    Ins(<<>>, "i32.ge_s"),
    Ins(<<>>, "i32.ge_u"),
    Ins(<<>>, "i64.eqz"),  \* 0x50
    Ins(<<>>, "i64.eq"),
    Ins(<<>>, "i64.ne"),
    Ins(<<>>, "i64.lt_s"),
    Ins(<<>>, "i64.lt_u"),
    Ins(<<>>, "i64.gt_s"),
    Ins(<<>>, "i64.gt_u"),
    Ins(<<>>, "i64.le_s"),
    Ins(<<>>, "i64.le_u"),
    Ins(<<>>, "i64.ge_s"),
    Ins(<<>>, "i64.ge_u"),
    Ins(<<>>, "f32.eq"),
    Ins(<<>>, "f32.ne"),
    Ins(<<>>, "f32.lt"),
    Ins(<<>>, "f32.gt"),
    Ins(<<>>, "f32.le"),
    Ins(<<>>, "f32.ge"),  \* 0x60
    Ins(<<>>, "f64.eq"),
    Ins(<<>>, "f64.ne"),
    Ins(<<>>, "f64.lt"),
    Ins(<<>>, "f64.gt"),
    Ins(<<>>, "f64.le"),
    Ins(<<>>, "f64.ge"),
    Ins(<<>>, "i32.clz"),
    Ins(<<>>, "i32.ctz"),
    Ins(<<>>, "i32.popcnt"),
    Ins(<<>>, "i32.add"),
    Ins(<<>>, "i32.sub"),
    Ins(<<>>, "i32.mul"),
    Ins(<<>>, "i32.div_s"),
    Ins(<<>>, "i32.div_u"),
    Ins(<<>>, "i32.rem_s"),
    Ins(<<>>, "i32.rem_u"),  \* 0x70
    Ins(<<>>, "i32.and"),
    Ins(<<>>, "i32.or"),
    Ins(<<>>, "i32.xor"),
    Ins(<<>>, "i32.shl"),
    Ins(<<>>, "i32.shr_s"),
    Ins(<<>>, "i32.shr_u"),
    Ins(<<>>, "i32.rotl"),
    Ins(<<>>, "i32.rotr"),
    Ins(<<>>, "i64.clz"),
    Ins(<<>>, "i64.ctz"),
    Ins(<<>>, "i64.popcnt"),
    Ins(<<>>, "i64.add"),
    Ins(<<>>, "i64.sub"),
    Ins(<<>>, "i64.mul"),
    Ins(<<>>, "i64.div_s"),
    Ins(<<>>, "i64.div_u"),  \* 0x80
    Ins(<<>>, "i64.rem_s"),
    Ins(<<>>, "i64.rem_u"),
    Ins(<<>>, "i64.and"),
    Ins(<<>>, "i64.or"),
    Ins(<<>>, "i64.xor"),
    Ins(<<>>, "i64.shl"),
    Ins(<<>>, "i64.shr_s"),
    Ins(<<>>, "i64.shr_u"),
    Ins(<<>>, "i64.rotl"),
    Ins(<<>>, "i64.rotr"),
    Ins(<<>>, "f32.abs"),
    Ins(<<>>, "f32.neg"),
    Ins(<<>>, "f32.ceil"),
    Ins(<<>>, "f32.floor"),
    Ins(<<>>, "f32.trunc"),
    Ins(<<>>, "f32.nearest"),  \* 0x90
    Ins(<<>>, "f32.sqrt"),
    Ins(<<>>, "f32.add"),
    Ins(<<>>, "f32.sub"),
    Ins(<<>>, "f32.mul"),
    Ins(<<>>, "f32.div"),
    Ins(<<>>, "f32.min"),
    Ins(<<>>, "f32.max"),
    Ins(<<>>, "f32.copysign"),
    Ins(<<>>, "f64.abs"),
    Ins(<<>>, "f64.neg"),
    Ins(<<>>, "f64.ceil"),
    Ins(<<>>, "f64.floor"),
    Ins(<<>>, "f64.trunc"),
    Ins(<<>>, "f64.nearest"),
    Ins(<<>>, "f64.sqrt"),
    Ins(<<>>, "f64.add"),  \* 0xA0
    Ins(<<>>, "f64.sub"),
    Ins(<<>>, "f64.mul"),
    Ins(<<>>, "f64.div"),
    Ins(<<>>, "f64.min"),
    Ins(<<>>, "f64.max"),
    Ins(<<>>, "f64.copysign"),
    Ins(<<>>, "i32.wrap"),
    Ins(<<>>, "i32.trunc_f32_s"),
    Ins(<<>>, "i32.trunc_f32_u"),
    Ins(<<>>, "i32.trunc_f64_s"),
    Ins(<<>>, "i32.trunc_f64_u"),
    Ins(<<>>, "i64.extend_i32_s"),
    Ins(<<>>, "i64.extend_i32_u"),
    Ins(<<>>, "i64.trunc_f32_s"),
    Ins(<<>>, "i64.trunc_f32_u"),
    Ins(<<>>, "i64.trunc_f64_s"),  \* 0xB0
    Ins(<<>>, "i64.trunc_f64_u"),
    Ins(<<>>, "f32.convert_i32_s"),
    Ins(<<>>, "f32.convert_i32_u"),
    Ins(<<>>, "f32.convert_i64_s"),
    Ins(<<>>, "f32.convert_i64_u"),
    Ins(<<>>, "f32.demote_f64"),
    Ins(<<>>, "f64.convert_i32_s"),
    Ins(<<>>, "f64.convert_i32_u"),
    Ins(<<>>, "f64.convert_i64_s"),
    Ins(<<>>, "f64.convert_i64_u"),
    Ins(<<>>, "f64.promote_f32"),
    Ins(<<>>, "i32.reinterpret_f32"),
    Ins(<<>>, "i64.reinterpret_f64"),
    Ins(<<>>, "f32.reinterpret_i32"),
    Ins(<<>>, "f64.reinterpret_i64"),
    Ins(<<>>, "i32.extend8_s"),  \* 0xC0
    Ins(<<>>, "i32.extend16_s"),
    Ins(<<>>, "i64.extend8_s"),
    Ins(<<>>, "i64.extend16_s"),
    Ins(<<>>, "i64.extend32_s"),
    NoIns,
    NoIns,
    NoIns,
    NoIns,
    NoIns,
    NoIns,
    NoIns,
    NoIns,
    NoIns,
    NoIns,
    NoIns,
    Ins(<<"ref">>, "ref.null"),  \* 0xD0
    Ins(<<>>, "ref.is_null"),
    Ins(<<"fid">>, "ref.func"),
    NoIns,
    NoIns,
    NoIns,
    NoIns,
    NoIns,
    NoIns,
    NoIns,
    NoIns,
    NoIns,
    NoIns,
    NoIns,
    NoIns,
    NoIns,
    NoIns,  \* 0xE0
    NoIns,
    NoIns,
    NoIns,
    NoIns,
    NoIns,
    NoIns,
    NoIns,
    NoIns,
    NoIns,
    NoIns,
    NoIns,
    NoIns,
    NoIns,
    NoIns,
    NoIns,
    NoIns,  \* 0xF0
    NoIns,
    NoIns,
    NoIns,
    NoIns,
    NoIns,
    NoIns,
    NoIns,
    NoIns,
    NoIns,
    NoIns,
    NoIns,
    DISASM_FC,
    DISASM_FD,
    NoIns,
    NoIns
  >>

\* ------------------------------------------------------------------------
\* instruction, expression

indent_step == 2

\* isinstance(op, int)
IsLiteral(op) == op = "#0"

LiteralValue(op) == 0

IdxKinds ==
  {"i32", "i64", "did", "eid", "fid", "gid", "lid", "mid", "tid", "tid1",
   "tid2", "xid"}

\* op == ('vb16', 'vlt'): op is a str of the table, 'vb16' or 'vlt' or
\* another, and in Python no str equals a tuple
IsVb16Vlt(op) == FALSE

RECURSIVE types_loop(_, _, _)
types_loop(s, n, ind) ==
  IF n = 0 \/ s.err # NoErr THEN s
  ELSE types_loop(emit_name(read_valtype(s), ind, "-->"), n - 1, ind)

RECURSIVE lids_loop(_, _, _)
lids_loop(s, n, ind) ==
  IF n = 0 \/ s.err # NoErr THEN s
  ELSE lids_loop(emit(leb128u(s), Mi(ind, "--> <Integer object>")), n - 1, ind)

\* `for _ in range(count)` of the operand kinds 't+' and 'lid+'
types_count(leb, ind) == types_loop(leb, leb.val, ind)

lids_count(leb, ind) == lids_loop(leb, leb.val, ind)

\* the block type's text: '(empty)', a value type's name, or (name "") the
\* decimal of the signed value
\* block_type_name with the test on the sign of the whole LEB128 instead of on
\* bit 6 of its first byte
block_type_name_by_sign(leb) ==
  IF decode_leb128s(leb) < 0
  THEN (IF leb[1] = 64 THEN "(empty)" ELSE get_valtype(leb[1]))
  ELSE ""

block_type_name(leb) ==
  IF Bit(leb[1], 6)
  THEN (IF leb[1] = 64 THEN "(empty)" ELSE get_valtype(leb[1]))
  ELSE ""

block_type_value(leb) ==
  IF Bit(leb[1], 6) THEN leb[1] ELSE decode_leb128s(leb)

block_type(leb, ind) ==
  IF leb.err # NoErr THEN leb
  ELSE emit(leb, [Mn(ind, "--> bt", block_type_name(leb.rd.data))
                    EXCEPT !.val = block_type_value(leb.rd.data)])

\* the literal operand: `if op == int(sfx)`
literal(sfx, op, ind) ==
  IF sfx.err # NoErr THEN sfx
  ELSE IF LiteralValue(op) = sfx.val THEN emit_val(sfx, ind, "--> (code:0x)")
  ELSE Raise(sfx, "NotImplementedError", "unknown instruction code")

\* one round of `for op in ins[0]`.  A float operand is shown as the float
\* its 4 or 8 bytes encode; the message keeps those bytes.
operand(s, op, ind) ==
  IF s.err # NoErr THEN s
  ELSE IF IsLiteral(op) THEN literal(byte(s), op, ind)
  ELSE IF op \in IdxKinds THEN emit_val(leb128u(s), ind, "--> {}")
  ELSE IF op = "f32" THEN emit_bytes(load(s, 4), ind, "--> f32")
  ELSE IF op = "f64" THEN emit_bytes(load(s, 8), ind, "--> f64")
  ELSE IF IsVb16Vlt(op) THEN emit_bytes(load(s, 16), ind, "--> bytes")
  ELSE IF op = "vl" THEN emit_val(byte(s), ind, "--> lane = 0x")
  ELSE IF op = "mao"
    THEN emit_val(leb128u(emit_val(leb128u(s), ind, "--> align = ")),
                  ind, "--> offset = ")
  ELSE IF op = "bt" THEN block_type(leb128(s), ind)
  ELSE IF op = "t+" THEN types_count(emit_val(leb128u(s), ind, "--> (types=)"), ind)
  ELSE IF op = "lid+" THEN lids_count(emit_val(leb128u(s), ind, "--> (types=)"), ind)
  ELSE IF op = "ref" THEN emit_name(read_reftype(s), ind, "-->")
  ELSE Raise(s, "NotImplementedError", "asm -> op")

RECURSIVE operands(_, _, _, _)
operands(s, ops, i, ind) ==
  IF i > Len(ops) \/ s.err # NoErr THEN s
  ELSE operands(operand(s, ops[i], ind), ops, i + 1, ind)

\* the indent_level a mnemonic is printed at
\* asm_level without the step back for 'else' and 'end'
asm_level_flat(asm, indent_level) == indent_level

asm_level(asm, indent_level) ==
  IF asm \in {"else", "end"} THEN Max(0, indent_level - 1) ELSE indent_level

indent_depth(asm, indent_base, indent_level) ==
  (indent_base + asm_level(asm, indent_level)) * indent_step

\* `return asm[0]`
returns(s, asm) == IF s.err # NoErr THEN s ELSE [s EXCEPT !.asm = asm]

\* instruction_ins with dprint moved before `if not ins:`
instruction_ins_print_first(data, ins, indent_base, indent_level) ==
  IF data.err # NoErr THEN data
  ELSE IF ins = NoIns
    THEN RaiseAt(emit(data, [Mn((indent_base + indent_level) * indent_step, "asm", "")
                               EXCEPT !.lvl = indent_level]),
                 "NotImplementedError", "unknown instruction", data.rd)
  ELSE returns(
         operands(emit(data, [Mn(indent_depth(ins.asm, indent_base, indent_level),
                                 "asm", ins.asm) EXCEPT !.lvl = indent_level]),
                  ins.ops, 1, indent_depth(ins.asm, indent_base, indent_level) + 2),
         ins.asm)

\* from `if not ins:` on; data is the stream after reload, whose rd holds
\* the opcode bytes.  An operand's line starts with indent + '  --> ': two
\* more spaces than the mnemonic's, and the arrow its tag starts with.
instruction_ins(data, ins, indent_base, indent_level) ==
  IF data.err # NoErr THEN data
  ELSE IF ins = NoIns
    THEN RaiseAt(data, "NotImplementedError", "unknown instruction", data.rd)
  ELSE returns(
         operands(emit(data, [Mn(indent_depth(ins.asm, indent_base, indent_level),
                                 "asm", ins.asm) EXCEPT !.lvl = indent_level]),
                  ins.ops, 1, indent_depth(ins.asm, indent_base, indent_level) + 2),
         ins.asm)

\* ins = DISASM[code1], and under 0xFC / 0xFD `ins = ins[code2]`, which
\* raises IndexError past the end of the plane
instruction_lookup(scode2, p, code1, ins, indent_base, indent_level) ==
  IF code1 \in {252, 253}
  THEN (IF scode2.val >= Len(ins)
        THEN Raise(scode2, "IndexError", "list index out of range")
        ELSE instruction_ins(reload(scode2, p), ins[scode2.val + 1],
                             indent_base, indent_level))
  ELSE instruction_ins(reload(scode2, p), ins, indent_base, indent_level)

\* `if code1 in (0xFC, 0xFD): scode2 = stream.leb128u()`
instruction_code2(scode1, p, indent_base, indent_level) ==
  IF scode1.err # NoErr THEN scode1
  ELSE instruction_lookup(
         IF scode1.val \in {252, 253} THEN leb128u(scode1) ELSE scode1,
         p, scode1.val, DISASM[scode1.val + 1], indent_base, indent_level)

instruction(s, indent_base, indent_level) ==
  instruction_code2(byte(s), s.rpos, indent_base, indent_level)

RECURSIVE expression(_, _, _)
RECURSIVE expression_asm(_, _, _)

\* expression_asm with `if asm in {'end', 'else'}: break`
expression_asm_else_breaks(a, indent_base, indent_level) ==
  IF a.err # NoErr \/ a.asm \in {"end", "else"} THEN a
  ELSE IF a.asm \in {"block", "loop", "if"}
    THEN expression(expression(a, indent_base, indent_level + 1),
                    indent_base, indent_level)
  ELSE expression(a, indent_base, indent_level)

\* the body of `while stream.remain() > 0:` after instruction() returned
expression_asm(a, indent_base, indent_level) ==
  IF a.err # NoErr \/ a.asm = "end" THEN a
  ELSE IF a.asm \in {"block", "loop", "if"}
    THEN expression(expression(a, indent_base, indent_level + 1),
                    indent_base, indent_level)
  ELSE expression(a, indent_base, indent_level)

expression(s, indent_base, indent_level) ==
  IF s.err # NoErr \/ remain(s) <= 0 THEN s
  ELSE expression_asm(instruction(s, indent_base, indent_level),
                      indent_base, indent_level)

\* ------------------------------------------------------------------------
\* Sections

\* section_remain_print without `if len(remain):`
section_remain_print_always(r) ==
  IF r.err # NoErr THEN r
  ELSE emit_strings(dprintNone(r, Mv(0, "unknown data: size = ", Len(r.rd.data))), 0)

\* `if len(remain):`
section_remain_print(r) ==
  IF r.err # NoErr \/ Len(r.rd.data) = 0 THEN r
  ELSE emit_strings(dprintNone(r, Mv(0, "unknown data: size = ", Len(r.rd.data))), 0)

\* section_remain without its two dprint calls
section_remain_silent(s) == load(s, remain(s))

section_remain(s) == section_remain_print(load(s, remain(s)))

\* byte = section.load(section.remain())
custom_section_rest(p) == emit_strings(load(p, remain(p)), 0)

custom_section(s) == custom_section_rest(emit_str(utf8(s), 0, "name = "))

type_entry_code(code) ==
  IF code.err # NoErr THEN code
  ELSE IF FUNCTYPE(code.val) = None
    THEN Raise(code, "NotImplementedError", "unknown code")
  ELSE result_type(result_type(emit(code, Mn(2, "{name}", FUNCTYPE(code.val))), "param", 2),
                   "result", 2)

RECURSIVE type_entries(_, _, _)
type_entries(s, typeidx, vlen) ==
  IF typeidx >= vlen \/ s.err # NoErr THEN s
  ELSE type_entries(type_entry_code(byte(dprintNone(s, Mx(0, "typeidx[]", typeidx, 0)))),
                    typeidx + 1, vlen)

\* `for typeidx in range(vlen):`, for the count p has just read
type_count(p) == type_entries(p, 0, p.val)

type_section(s) ==
  section_remain(type_count(emit_val(leb128u(s), 0, "functype count = ")))

\* the branches on mode, for the kind byte r has just read
import_desc(r) ==
  IF r.err # NoErr THEN r
  ELSE IF r.val = 0 THEN emit_val(leb128u(r), 4, "typeidx = ")
  ELSE IF r.val = 1 THEN limits(reference_type(r, 4, "{reftype}"), 4)
  ELSE IF r.val = 2 THEN limits(r, 4)
  ELSE IF r.val = 3 THEN mutability(value_type(r, 4, "{valtype}"), 4, "{mut}")
  ELSE Raise(r, "NotImplementedError", "unknown import section")

\* dprint(imp.data, f'{indent}{mnam}')
import_mode(imp) == emit(imp, Mn(2, "{mnam}", IMPORT_MODE(imp.val)))

import_entry(h) ==
  import_desc(import_mode(byte(
    emit_str(utf8(emit_str(utf8(h), 2, "module = ")), 2, "name = "))))

RECURSIVE import_entries(_, _, _)
import_entries(s, idx, vlen) ==
  IF idx >= vlen \/ s.err # NoErr THEN s
  ELSE import_entries(import_entry(dprintNone(s, Mx(0, "import[]", idx, 0))),
                      idx + 1, vlen)

import_count(p) == import_entries(p, 0, p.val)

import_section(s) ==
  section_remain(import_count(emit_val(leb128u(s), 0, "import count = ")))

RECURSIVE function_entries(_, _, _)
function_entries(s, idx, vlen) ==
  IF idx >= vlen \/ s.err # NoErr THEN s
  ELSE function_entries(emit_idx(leb128u(s), 2, "typeidx[] = ", idx), idx + 1, vlen)

function_count(p) == function_entries(p, 0, p.val)

function_section(s) ==
  section_remain(function_count(emit_val(leb128u(s), 0, "typeidx count = ")))

RECURSIVE table_entries(_, _, _)
table_entries(s, idx, vlen) ==
  IF idx >= vlen \/ s.err # NoErr THEN s
  ELSE table_entries(
         limits(reference_type(dprintNone(s, Mx(0, "table[]", idx, 0)), 2, "{reftype}"), 2),
         idx + 1, vlen)

table_count(p) == table_entries(p, 0, p.val)

table_section(s) ==
  section_remain(table_count(emit_val(leb128u(s), 0, "table count = ")))

RECURSIVE memory_entries(_, _, _)
memory_entries(s, idx, vlen) ==
  IF idx >= vlen \/ s.err # NoErr THEN s
  ELSE memory_entries(limits(dprintNone(s, Mx(0, "mem[]", idx, 0)), 2), idx + 1, vlen)

memory_count(p) == memory_entries(p, 0, p.val)

memory_section(s) ==
  section_remain(memory_count(emit_val(leb128u(s), 0, "memtype count = ")))

global_entry(h) ==
  expression(
    dprintNone(mutability(value_type(h, 2, "valtype = "), 2, "mut = "), Mi(2, "expr")),
    2, 0)

RECURSIVE global_entries(_, _, _)
global_entries(s, idx, vlen) ==
  IF idx >= vlen \/ s.err # NoErr THEN s
  ELSE global_entries(global_entry(dprintNone(s, Mx(0, "global[]", idx, 0))),
                      idx + 1, vlen)

global_count(p) == global_entries(p, 0, p.val)

global_section(s) ==
  section_remain(global_count(emit_val(leb128u(s), 0, "global count = ")))

\* from `if mnam is None:` on, for the kind byte q has just read and printed
export_index(q) ==
  IF q.err # NoErr THEN q
  ELSE IF EXPORT_MODE(q.val) = None
    THEN Raise(q, "NotImplementedError", "unknown export section")
  ELSE emit_named(leb128u(q), 4, "idx = ", EXPORT_MODE(q.val))

export_mode(exp) == emit(exp, [Mn(2, "{mnam}", EXPORT_MODE(exp.val)) EXCEPT !.val = exp.val])

export_entry(h) == export_index(export_mode(byte(emit_str(utf8(h), 2, "name = "))))

RECURSIVE export_entries(_, _, _)
export_entries(s, idx, vlen) ==
  IF idx >= vlen \/ s.err # NoErr THEN s
  ELSE export_entries(export_entry(dprintNone(s, Mx(0, "export[]", idx, 0))),
                      idx + 1, vlen)

export_count(p) == export_entries(p, 0, p.val)

export_section(s) ==
  section_remain(export_count(emit_val(leb128u(s), 0, "export count = ")))

start_section(s) == section_remain(emit_val(leb128u(s), 0, "funcidx = "))

RECURSIVE element_exprs(_, _, _)
element_exprs(s, idx, count) ==
  IF idx >= count \/ s.err # NoErr THEN s
  ELSE element_exprs(expression(dprintNone(s, Mx(2, "expr[]", idx, 0)), 2, 0),
                     idx + 1, count)

RECURSIVE element_funcs(_, _, _)
element_funcs(s, idx, count) ==
  IF idx >= count \/ s.err # NoErr THEN s
  ELSE element_funcs(emit_idx(leb128u(s), 2, "funcidx[] = ", idx), idx + 1, count)

element_exprs_count(q) == element_exprs(q, 0, q.val)

element_funcs_count(q) == element_funcs(q, 0, q.val)

\* kind != 0, where kind is the Integer that byte() returned.  Integer
\* defines __int__ and no __eq__ / __ne__, so Python compares identities:
\* an Integer object is never the int 0, and the test is True whatever the
\* byte read.
kind_ne_0(kind) == TRUE

\* `kind = section.byte()` and the test that follows
element_kind(kind) ==
  IF kind.err # NoErr THEN kind
  ELSE IF kind_ne_0(kind.val)
    THEN RaiseAt(kind, "NotImplementedError", "unknown elemkind", kind.rd)
  ELSE emit(kind, Mi(2, "funcref"))

\* `if mode & 4:` and its else
element_init(s, mode) ==
  IF s.err # NoErr THEN s
  ELSE IF Bit(mode, 2)
    THEN element_exprs_count(
           emit_val(leb128u(IF mode % 4 # 0 THEN emit_name(read_valtype(s), 2, "{cvt}")
                            ELSE s),
                    2, "expr count = "))
  ELSE element_funcs_count(
         emit_val(leb128u(IF mode % 4 # 0 THEN element_kind(byte(s)) ELSE s),
                  2, "funcidx count = "))

\* `if not mode & 1:`
element_offset(t, mode) ==
  IF Bit(mode, 0) THEN t ELSE expression(dprintNone(t, Mi(2, "expr")), 2, 0)

\* from `if mode >= 8:` on, for the mode byte p has just read and printed
element_mode(p) ==
  IF p.err # NoErr THEN p
  ELSE IF p.val >= 8 THEN Raise(p, "NotImplementedError", "unknown element")
  ELSE element_init(
         element_offset(IF p.val \in {2, 6} THEN emit_val(leb128u(p), 2, "tableidx = ")
                        ELSE p,
                        p.val),
         p.val)

RECURSIVE element_entries(_, _, _)
element_entries(s, idx, vlen) ==
  IF idx >= vlen \/ s.err # NoErr THEN s
  ELSE element_entries(element_mode(emit_idx(byte(s), 0, "elem[] (mode:)", idx)),
                       idx + 1, vlen)

element_count(p) == element_entries(p, 0, p.val)

element_section(s) ==
  section_remain(element_count(emit_val(leb128u(s), 0, "element count = ")))

RECURSIVE code_locals(_, _, _)
code_locals(s, lnum, lsz) ==
  IF lnum >= lsz \/ s.err # NoErr THEN s
  ELSE code_locals(
         emit_name(read_valtype(
                     emit_val(dprintNone(leb128u(s), Mx(2, "local[]", lnum, 0)),
                              4, "type count = ")),
                   4, "type = "),
         lnum + 1, lsz)

code_locals_count(p) == code_locals(p, 0, p.val)

\* what runs on the sub-cursor `code` of one code entry
code_body(code) ==
  section_remain(
    expression(code_locals_count(emit_val(leb128u(code), 2, "local size = ")), 1, 0))

\* the section cursor c after the entry whose sub-cursor ended as code
code_return(c, code) == [c EXCEPT !.out = code.out, !.err = code.err]

\* code = section.load(int(csz)), and the rest of the round on `code`
code_entry(c) ==
  IF c.err # NoErr THEN c
  ELSE code_return(c, code_body(Stream(c.rd.data, c.rd.fpos, c.out)))

\* section.load(int(csz)) for the size p has just read and printed
code_load(p) == load(p, p.val)

RECURSIVE code_entries(_, _, _)
code_entries(s, idx, vlen) ==
  IF idx >= vlen \/ s.err # NoErr THEN s
  ELSE code_entries(
         code_entry(code_load(emit_val(dprintNone(leb128u(s), Mx(0, "code[]", idx, 0)),
                                       2, "code size = "))),
         idx + 1, vlen)

code_count(p) == code_entries(p, 0, p.val)

code_section(s) ==
  section_remain(code_count(emit_val(leb128u(s), 0, "code count = ")))

\* bdt = section.load(int(bsz)) for the size q has just read and printed
data_init(q) == emit_strings(load(q, q.val), 4)

\* `if mode == 2:`.  dprint(memidx.code, ...) reads an attribute that
\* Integer does not have: AttributeError, once memidx has been read
data_memidx(p, mode) ==
  IF mode = 2
  THEN Raise(leb128u(p), "AttributeError", "'Integer' object has no attribute 'code'")
  ELSE p

\* `if mode in (0, 2):`
data_offset(m, mode) == IF mode \in {0, 2} THEN expression(m, 1, 0) ELSE m

\* from `if mode >= 3:` on, for the mode p has just read and printed
data_mode(p) ==
  IF p.err # NoErr THEN p
  ELSE IF p.val >= 3 THEN Raise(p, "NotImplementedError", "unknown data")
  ELSE data_init(emit_val(leb128u(data_offset(data_memidx(p, p.val), p.val)),
                          2, "init size = "))

RECURSIVE data_entries(_, _, _)
data_entries(s, idx, vlen) ==
  IF idx >= vlen \/ s.err # NoErr THEN s
  ELSE data_entries(data_mode(emit_idx(leb128u(s), 0, "data[] (mode=)", idx)),
                    idx + 1, vlen)

data_count(p) == data_entries(p, 0, p.val)

data_section(s) ==
  section_remain(data_count(emit_val(leb128u(s), 0, "data count = ")))

datacount_section(s) == section_remain(emit_val(long(s), 0, "data count = "))

\* ------------------------------------------------------------------------
\* main

FILE_MAGIC == <<0, 97, 115, 109>>

SECTION_NAME ==
  <<"Custom", "Type", "Import", "Function", "Table", "Memory", "Global",
    "Export", "Start", "Element", "Code", "Data", "Data Count">>

\* the cursor `file` of main, as the variables hold it
File == [Stream(file, 0, out) EXCEPT !.rpos = rpos]

\* the variables after a step that left the cursor `file` as s
Becomes(s, next) ==
  /\ rpos' = s.rpos
  /\ out' = s.out
  /\ err' = s.err
  /\ pc' = IF s.err # NoErr THEN "fail" ELSE next
  /\ UNCHANGED <<file, arg>>

\* dprint(secid.data, f'{SECTION_NAME[sid]} Section (id={sid})')
section_name(secid) ==
  IF secid.err # NoErr THEN secid
  ELSE IF secid.val >= Len(SECTION_NAME)
    THEN Raise(secid, "IndexError", "tuple index out of range")
  ELSE emit_named(secid, 0, "Section (id=)", SECTION_NAME[secid.val + 1])

\* file.read(ssz) for the size q has just read and printed
section_read(q) == read(q, q.val)

\* one round of `while file.remain():` up to the call of the handler: the
\* cursor `file` after file.read(ssz), whose rd is the section's sub-cursor
section_header(s) ==
  section_read(emit_val(leb128u(section_name(byte(s))), 0, "section size = "))

\* the sub-cursor that file.read(ssz) returned
section_cursor(h) == Stream(h.rd.data, h.rd.fpos, h.out)

\* the cursor `file` once the handler has returned, or raised, with its
\* sub-cursor as sec
section_return(h, sec) ==
  IF h.err # NoErr THEN h ELSE [h EXCEPT !.out = sec.out, !.err = sec.err]

\* ------------------------------------------------------------------------
\* The input files of the model

\* sequences over S of length at most n
RECURSIVE SeqsUpTo(_, _)
SeqsUpTo(S, n) ==
  IF n = 0 THEN {<<>>}
  ELSE LET shorter == SeqsUpTo(S, n - 1)
       IN shorter \cup {Append(q, x) : q \in {t \in shorter : Len(t) = n - 1}, x \in S}

RECURSIVE Concat(_)
Concat(ss) == IF ss = <<>> THEN <<>> ELSE Head(ss) \o Concat(Tail(ss))

Header == FILE_MAGIC \o <<1, 0, 0, 0>>

\* a section: id, one-byte size, payload
Framed(id, payload) == <<id, Len(payload)>> \o payload

\* the bytes the raw payloads are drawn from
PayloadBytes == {0, 1, 2, 11, 96, 127, 128}

\* the u32 of a data count section stays below 2^31, the largest integer of
\* the model checker
SmallLong(id, p) == id # 12 \/ Len(p) < 4 \/ p[4] < 128

RawPayloads(id) == {p \in SeqsUpTo(PayloadBytes, MaxPayload) : SmallLong(id, p)}

RawFiles == UNION {{Header \o Framed(id, p) : p \in RawPayloads(id)} : id \in 0..13}

\* instructions of structured control flow, and two plain ones
CtlSnippets ==
  {<<1>>, <<11>>, <<5>>, <<2, 64>>, <<4, 127>>, <<3, 126>>, <<65, 127>>, <<6>>}

Sixteen == <<16, 17, 18, 19, 20, 21, 22, 23, 24, 25, 26, 27, 28, 29, 30, 31>>

\* one instruction of each operand grammar, well-formed and not
OpSnippets ==
  {<<32, 0>>, <<106>>, <<65, 0>>, <<65, 127>>, <<65, 192, 0>>, <<65, 255, 127>>,
   <<66, 127>>, <<66, 63>>, <<66, 128, 127>>,
   <<2, 64>>, <<2, 127>>, <<2, 126>>, <<2, 125>>, <<2, 124>>, <<2, 123>>,
   <<2, 112>>, <<2, 111>>, <<2, 65>>, <<2, 5>>, <<2, 128, 127>>, <<2, 192, 0>>,
   <<2, 255, 0>>, <<2, 128, 1>>, <<3, 64>>, <<4, 0>>,
   <<6>>, <<7>>, <<252, 18>>, <<253, 154, 1>>, <<252, 128, 2>>, <<255>>,
   <<253, 12>> \o Sixteen, <<253, 13>> \o Sixteen, <<253, 12, 1, 2>>,
   <<253, 84, 0, 16, 3>>, <<253, 21, 7>>, <<40, 2, 128, 1>>,
   <<28, 1, 127>>, <<28, 2, 127, 0>>, <<28, 1, 64>>, <<208, 112>>, <<208, 111>>,
   <<208, 0>>, <<208, 127>>,
   <<63, 0>>, <<63, 1>>, <<252, 10, 0, 0>>, <<252, 8, 1, 0>>,
   <<14, 2, 0, 1, 0>>, <<17, 0, 0>>, <<12, 0>>,
   <<67, 0, 0, 128, 63>>, <<67, 0>>, <<68, 0, 0, 0, 0, 0, 0, 240, 63>>, <<68>>,
   <<253>>, <<252, 128>>, <<65>>, <<65, 128>>, <<2>>}

Bodies ==
  {Concat(ss) : ss \in SeqsUpTo(CtlSnippets, MaxInstr)}
  \cup {pre \o sn \o post : pre \in {<<>>, <<1>>, <<2, 64>>}, sn \in OpSnippets,
                            post \in {<<>>, <<11>>, <<11, 11, 1>>}}

\* a code section of one entry without locals, and one with a local group
CodeOf(body) == <<1, Len(body) + 1, 0>> \o body

CodeLocals(t, body) == <<1, Len(body) + 3, 1, 2, t>> \o body

GlobalOf(body) == <<1, 127, 0>> \o body

BodyFiles ==
  {Header \o Framed(10, CodeOf(b)) : b \in Bodies}
  \cup {Header \o Framed(6, GlobalOf(b)) : b \in Bodies}

ConstExpr == <<65, 0, 11>>

FuncExpr == <<210, 0, 11>>

\* one element segment of mode m whose type byte (reftype or elemkind) is k,
\* laid out as the decoding order of element_section expects it
ElemSeg(m, k) ==
  <<m>>
  \o (IF m \in {2, 6} THEN <<0>> ELSE <<>>)
  \o (IF m % 2 = 0 THEN ConstExpr ELSE <<>>)
  \o (IF m % 4 # 0 THEN <<k>> ELSE <<>>)
  \o (IF m \div 4 = 1 THEN <<1>> \o FuncExpr ELSE <<2, 0, 1>>)

ElementPayloads ==
  {<<1>> \o ElemSeg(m, k) : m \in 0..8, k \in {0, 1, 112, 111}}
  \cup {<<2>> \o ElemSeg(0, 0) \o ElemSeg(4, 0), <<1, 4>> \o ConstExpr \o <<2>> \o FuncExpr}

DataPayloads ==
  {<<1, 0>> \o ConstExpr \o <<2, 104, 105>>,
   <<1, 1, 2, 104, 105>>,
   <<1, 2, 0>> \o ConstExpr \o <<2, 104, 105>>,
   <<1, 3>>,
   <<2, 1, 0, 1, 1, 33>>,
   <<1, 1, 3, 104>>,
   <<1, 1, 9, 1, 2, 3, 4, 5, 6, 7, 8, 9, 0>>}

\* the name "a" for an import or an export
NameA == <<1, 97>>

ImportPayloads ==
  {<<1>> \o NameA \o NameA \o d :
     d \in {<<0, 0>>, <<1, 112, 0, 1>>, <<1, 111, 1, 1, 2>>, <<1, 0, 0, 1>>,
            <<1, 240, 0, 0, 1>>, <<2, 0, 1>>, <<2, 1, 1, 2>>, <<2, 2, 1>>,
            <<3, 127, 0>>, <<3, 123, 1>>, <<3, 0, 0>>, <<3, 127, 2>>, <<4>>}}
  \cup {<<1, 2, 195, 169>> \o NameA \o <<0, 0>>,
        <<1, 1, 255>> \o NameA \o <<0, 0>>,
        <<1, 3, 237, 160, 128>> \o NameA \o <<0, 0>>,
        <<1, 3, 226, 130, 172>> \o NameA \o <<0, 0>>,
        <<1, 4, 240, 159, 146, 169>> \o NameA \o <<0, 0>>,
        <<1, 5, 97>>}

SamplePayloads(id) ==
  CASE id = 0 -> {<<1, 97, 1, 2, 3>>, <<0>>, <<2, 195, 169>>, <<1, 255>>, <<5, 97>>,
                  <<1, 97, 1, 2, 3, 4, 5, 6, 7, 8, 9>>}
    [] id = 1 -> {<<1, 96, 2, 127, 127, 1, 127>>, <<1, 96, 1, 0, 0>>, <<1, 97>>,
                  <<2, 96, 0, 0, 96, 1, 126, 0>>, <<1, 96, 0, 1, 64>>,
                  <<1, 96, 0, 0, 170, 187>>}
    [] id = 2 -> ImportPayloads
    [] id = 3 -> {<<1, 0>>, <<2, 0, 1, 7>>, <<2, 0>>}
    [] id = 4 -> {<<1, 112, 0, 1>>, <<1, 111, 1, 1, 2>>, <<1, 0, 0, 1>>,
                  <<1, 127, 0, 1>>, <<1, 112, 2, 1>>}
    [] id = 5 -> {<<1, 0, 1>>, <<1, 1, 1, 2>>, <<1, 2, 1>>, <<1, 0, 1, 9>>}
    [] id = 6 -> {<<1, 127, 0>> \o ConstExpr, <<1, 0, 0>> \o ConstExpr,
                  <<1, 127, 2>> \o ConstExpr, <<2, 127, 0>> \o ConstExpr \o <<126, 1, 66, 0, 11>>}
    [] id = 7 -> {<<1>> \o NameA \o <<0, 0>>, <<1>> \o NameA \o <<4, 0>>,
                  <<1>> \o NameA \o <<3, 5, 9>>}
    [] id = 8 -> {<<0>>, <<0, 170>>, <<128, 0>>, <<>>}
    [] id = 9 -> ElementPayloads
    [] id = 10 -> {CodeLocals(t, b) : t \in {127, 0, 112},
                                      b \in {<<32, 0, 32, 1, 106, 11>>, <<11, 0>>}}
                  \cup {<<2>> \o Tail(CodeOf(<<11>>)) \o Tail(CodeOf(<<1, 11, 7>>)),
                        <<1, 9, 0, 11>>}
    [] id = 11 -> DataPayloads
    [] id = 12 -> {<<1, 0, 0, 0>>, <<1, 0>>, <<1, 0, 0, 0, 9>>}
    [] OTHER -> {<<>>, <<0>>}

SampleFiles ==
  UNION {{Header \o Framed(id, p) : p \in SamplePayloads(id)} : id \in 0..13}

\* sections that decode, to put before and after another section
Wellformed ==
  {Framed(1, <<1, 96, 2, 127, 127, 1, 127>>), Framed(3, <<1, 0>>),
   Framed(10, CodeOf(<<32, 0, 32, 1, 106, 11>>)), Framed(0, <<1, 97, 1>>),
   Framed(8, <<0, 170>>), Framed(12, <<1, 0, 0, 0>>)}

\* a section whose size field says d more (or fewer) bytes than its payload
Misframed(id, payload, d) == <<id, Len(payload) + d>> \o payload

FrameFiles ==
  {Header \o a \o b : a \in Wellformed, b \in Wellformed}
  \cup UNION {{Header \o Misframed(id, p, d) \o b :
                   p \in SamplePayloads(id) \ {<<>>}, d \in {-1, 1},
                   b \in {<<>>, Framed(3, <<1, 0>>)}} : id \in {1, 3, 8, 10}}
  \cup {Header \o <<3, 130, 0, 1, 0>>, Header \o <<3, 128>>, Header \o <<3>>}
  \cup {Header \o Framed(1, <<1, 96, 2, 127, 127, 1, 127>>) \o Framed(3, <<1, 0>>)
               \o Framed(10, CodeOf(<<32, 0, 32, 1, 106, 11>>))}

\* files that end inside the header, or start with another magic
HeaderFiles ==
  {SubSeq(Header, 1, n) : n \in 0..Len(Header)}
  \cup {<<222, 173, 190, 239, 1, 0, 0, 0>>, FILE_MAGIC \o <<2, 0, 0, 0>>,
        FILE_MAGIC \o <<1, 0, 0, 1>>}

Files == RawFiles \cup BodyFiles \cup SampleFiles \cup FrameFiles \cup HeaderFiles

\* ------------------------------------------------------------------------
\* The run of main on one file: pc is where main stands

Init ==
  /\ file \in Files
  /\ rpos = 0
  /\ out = <<>>
  /\ err = NoErr
  /\ pc = "magic"
  /\ arg = <<>>

\* `if magic.data != FILE_MAGIC: raise ValueError()`
magic_check(magic) ==
  IF magic.rd.data # FILE_MAGIC THEN Raise(magic, "ValueError", "") ELSE magic

\* magic = file.read(4) ... raise ValueError()
Magic ==
  /\ pc = "magic"
  /\ Becomes(magic_check(emit_bytes(read(File, 4), 0, "magic = ")), "version")

\* version = file.long()
Version ==
  /\ pc = "version"
  /\ Becomes(emit_val(long(File), 0, "version = "), "loop")

\* `while file.remain():` goes round once more, with sid at the cursor
Round(sid) ==
  /\ pc = "loop"
  /\ remain(File) > 0
  /\ file[rpos + 1] = sid

\* SECTION_FUNC[sid](file.read(ssz)), one action for each handler
CustomSection ==
  /\ Round(0)
  /\ Becomes(section_return(section_header(File),
                            custom_section(section_cursor(section_header(File)))), "loop")

TypeSection ==
  /\ Round(1)
  /\ Becomes(section_return(section_header(File),
                            type_section(section_cursor(section_header(File)))), "loop")

ImportSection ==
  /\ Round(2)
  /\ Becomes(section_return(section_header(File),
                            import_section(section_cursor(section_header(File)))), "loop")

FunctionSection ==
  /\ Round(3)
  /\ Becomes(section_return(section_header(File),
                            function_section(section_cursor(section_header(File)))), "loop")

TableSection ==
  /\ Round(4)
  /\ Becomes(section_return(section_header(File),
                            table_section(section_cursor(section_header(File)))), "loop")

MemorySection ==
  /\ Round(5)
  /\ Becomes(section_return(section_header(File),
                            memory_section(section_cursor(section_header(File)))), "loop")

GlobalSection ==
  /\ Round(6)
  /\ Becomes(section_return(section_header(File),
                            global_section(section_cursor(section_header(File)))), "loop")

ExportSection ==
  /\ Round(7)
  /\ Becomes(section_return(section_header(File),
                            export_section(section_cursor(section_header(File)))), "loop")

StartSection ==
  /\ Round(8)
  /\ Becomes(section_return(section_header(File),
                            start_section(section_cursor(section_header(File)))), "loop")

ElementSection ==
  /\ Round(9)
  /\ Becomes(section_return(section_header(File),
                            element_section(section_cursor(section_header(File)))), "loop")

CodeSection ==
  /\ Round(10)
  /\ Becomes(section_return(section_header(File),
                            code_section(section_cursor(section_header(File)))), "loop")

DataSection ==
  /\ Round(11)
  /\ Becomes(section_return(section_header(File),
                            data_section(section_cursor(section_header(File)))), "loop")

DataCountSection ==
  /\ Round(12)
  /\ Becomes(section_return(section_header(File),
                            datacount_section(section_cursor(section_header(File)))), "loop")

\* SECTION_NAME[sid] raises IndexError
UnknownSection ==
  /\ pc = "loop"
  /\ remain(File) > 0
  /\ file[rpos + 1] >= Len(SECTION_NAME)
  /\ Becomes(section_header(File), "loop")

\* `while file.remain():` is over and main returns
Finish ==
  /\ pc = "loop"
  /\ remain(File) = 0
  /\ pc' = "done"
  /\ UNCHANGED <<file, rpos, out, err, arg>>

Next ==
  \/ Magic
  \/ Version
  \/ CustomSection
  \/ TypeSection
  \/ ImportSection
  \/ FunctionSection
  \/ TableSection
  \/ MemorySection
  \/ GlobalSection
  \/ ExportSection
  \/ StartSection
  \/ ElementSection
  \/ CodeSection
  \/ DataSection
  \/ DataCountSection
  \/ UnknownSection
  \/ Finish

Spec == Init /\ [][Next]_vars

\* ------------------------------------------------------------------------
\* Python's int at its full width.  A natural number is the sequence of its
\* bits, least significant first, without a leading zero (0 is <<>>); an
\* int is a sign and a natural.

\* the most bits of a number the cursor alone is given in an encoding
MaxBits == 64

\* the most bytes of an encoding the cursor alone is given
MaxLebLen == 10

RECURSIVE WideNorm(_)
WideNorm(b) ==
  IF b = <<>> THEN b
  ELSE IF b[Len(b)] = 0 THEN WideNorm(SubSeq(b, 1, Len(b) - 1))
  ELSE b

RECURSIVE WideOf(_)
WideOf(k) == IF k = 0 THEN <<>> ELSE <<k % 2>> \o WideOf(k \div 2)

WideBit(b, i) == IF i <= Len(b) THEN b[i] ELSE 0

\* b << k
WideShl(b, k) == IF b = <<>> THEN b ELSE [i \in 1..k |-> 0] \o b

\* a + b from bit i on with the carry c into it
RECURSIVE WideAddFrom(_, _, _, _)
WideAddFrom(a, b, i, c) ==
  IF i > Len(a) /\ i > Len(b) THEN (IF c = 1 THEN <<1>> ELSE <<>>)
  ELSE <<(WideBit(a, i) + WideBit(b, i) + c) % 2>>
       \o WideAddFrom(a, b, i + 1, (WideBit(a, i) + WideBit(b, i) + c) \div 2)

WideAdd(a, b) == WideAddFrom(a, b, 1, 0)

\* a < b, deciding from bit i down
RECURSIVE WideLessFrom(_, _, _)
WideLessFrom(a, b, i) ==
  IF i = 0 THEN FALSE
  ELSE IF WideBit(a, i) # WideBit(b, i) THEN WideBit(a, i) < WideBit(b, i)
  ELSE WideLessFrom(a, b, i - 1)

WideLess(a, b) == WideLessFrom(a, b, Max(Len(a), Len(b)))

\* a - b for a >= b, from bit i on with the borrow c out of it
RECURSIVE WideSubFrom(_, _, _, _)
WideSubFrom(a, b, i, c) ==
  IF i > Len(a) THEN <<>>
  ELSE <<(2 + WideBit(a, i) - WideBit(b, i) - c) % 2>>
       \o WideSubFrom(a, b, i + 1,
                      IF WideBit(a, i) - WideBit(b, i) - c < 0 THEN 1 ELSE 0)

WideInt(neg, mag) == [neg |-> neg, mag |-> mag]

\* a - b for naturals a and b
WideMinus(a, b) ==
  IF WideLess(a, b) THEN WideInt(TRUE, WideNorm(WideSubFrom(b, a, 1, 0)))
  ELSE WideInt(FALSE, WideNorm(WideSubFrom(a, b, 1, 0)))

\* ------------------------------------------------------------------------
\* decode_leb128u, decode_leb128s and the cursor's leb128u, leb128s on ints
\* of any width

\* sum(... for n, v in enumerate(data)), from the term n on, acc so far
RECURSIVE decode_leb128u_sum(_, _, _)
decode_leb128u_sum(data, n, acc) ==
  IF n >= Len(data) THEN acc
  ELSE decode_leb128u_sum(data, n + 1,
                          WideAdd(acc, WideShl(WideOf(data[n + 1] % 128), n * 7)))

\* decode_leb128u whose terms are shifted by n * 8
RECURSIVE decode_leb128u_sum_bytes(_, _, _)
decode_leb128u_sum_bytes(data, n, acc) ==
  IF n >= Len(data) THEN acc
  ELSE decode_leb128u_sum_bytes(data, n + 1,
                                WideAdd(acc, WideShl(WideOf(data[n + 1] % 128), n * 8)))

decode_leb128u_bytes(data) == WideInt(FALSE, decode_leb128u_sum_bytes(data, 0, <<>>))

decode_leb128u_wide(data) == WideInt(FALSE, decode_leb128u_sum(data, 0, <<>>))

\* decode_leb128s that tests the sign in bit 7 of the last byte
decode_leb128s_bit7(data) ==
  IF Bit(data[Len(data)], 7)
  THEN WideMinus(decode_leb128u_wide(data).mag, WideShl(<<1>>, Len(data) * 7))
  ELSE decode_leb128u_wide(data)

decode_leb128s_wide(data) ==
  IF Bit(data[Len(data)], 6)
  THEN WideMinus(decode_leb128u_wide(data).mag, WideShl(<<1>>, Len(data) * 7))
  ELSE decode_leb128u_wide(data)

\* Integer(decode_leb128u(dat), dat)
leb128u_wide_value(r) ==
  IF r.err # NoErr THEN r ELSE [r EXCEPT !.val = decode_leb128u_wide(r.rd.data)]

leb128u_wide(s) == leb128u_wide_value(leb128(s))

\* leb128s that decodes with decode_leb128u
leb128s_wide_value_unsigned(r) ==
  IF r.err # NoErr THEN r ELSE [r EXCEPT !.val = decode_leb128u_wide(r.rd.data)]

leb128s_wide_value(r) ==
  IF r.err # NoErr THEN r ELSE [r EXCEPT !.val = decode_leb128s_wide(r.rd.data)]

leb128s_wide(s) == leb128s_wide_value(leb128(s))

\* ------------------------------------------------------------------------
\* The numbers and the encodings the cursor alone is given

\* the number of L bits whose top bit is set and whose lower bits are all
\* 0 (p = 0), all 1 (p = 1) or alternate (p = 2, 3)
BitPattern(L, p) ==
  [i \in 1..L |-> IF i = L THEN 1
                  ELSE CASE p = 0 -> 0
                         [] p = 1 -> 1
                         [] p = 2 -> i % 2
                         [] OTHER -> (i + 1) % 2]

WideNats(bits) == {<<>>} \cup {BitPattern(L, p) : L \in 1..bits, p \in 0..3}

WideOne == <<1>>

\* bits 7 (i - 1) + 1 .. 7 i of b as a number 0..127
Group(b, i) ==
  WideBit(b, 7 * i - 6) + 2 * WideBit(b, 7 * i - 5) + 4 * WideBit(b, 7 * i - 4)
  + 8 * WideBit(b, 7 * i - 3) + 16 * WideBit(b, 7 * i - 2)
  + 32 * WideBit(b, 7 * i - 1) + 64 * WideBit(b, 7 * i)

\* the bytes of the groups 1..len of b, all but the last with the high bit
Groups(b, len) == [i \in 1..len |-> Group(b, i) + IF i < len THEN 128 ELSE 0]

\* the fewest bytes of an unsigned encoding of b
ShortestLen(b) == Max(1, CeilDiv(Len(b), 7))

\* the unsigned LEB128 encoding of the natural b in len bytes
encode_u(b, len) == Groups(b, len)

\* the natural b - 1, for b > 0
WidePred(b) == WideNorm(WideSubFrom(b, WideOne, 1, 0))

\* the canonical signed LEB128 encoding of n: the fewest groups of the two's
\* complement of n whose top bit is the sign.  -m is ~(m - 1).
encode_s(n) ==
  IF n.neg
  THEN Groups([i \in 1..(7 * CeilDiv(Len(WidePred(n.mag)) + 1, 7)) |->
                 1 - WideBit(WidePred(n.mag), i)],
              CeilDiv(Len(WidePred(n.mag)) + 1, 7))
  ELSE Groups(n.mag, CeilDiv(Len(n.mag) + 1, 7))

\* what may follow an encoding in the cursor
Trails == {<<>>, <<128, 1>>}

\* n in 0 .. 2^MaxBits - 1 in each encoding up to MaxLebLen bytes
UnsignedArgs ==
  UNION {{[kind |-> "u", n |-> WideInt(FALSE, b), enc |-> encode_u(b, len)]
            : len \in ShortestLen(b)..MaxLebLen} : b \in WideNats(MaxBits)}

\* n in -2^(MaxBits - 1) .. 2^(MaxBits - 1) - 1 in its canonical encoding
SignedArgs ==
  {[kind |-> "s", n |-> WideInt(FALSE, b), enc |-> encode_s(WideInt(FALSE, b))]
     : b \in WideNats(MaxBits - 1)}
  \cup {[kind |-> "s", n |-> WideInt(TRUE, b), enc |-> encode_s(WideInt(TRUE, b))]
          : b \in (WideNats(MaxBits - 1) \ {<<>>}) \cup {BitPattern(MaxBits, 0)}}

\* up to MaxLebLen - 4 continuation bytes and then a last byte, whatever they
\* encode
RawSeqs ==
  UNION {{c \o <<l>> : c \in [1..k -> {128, 255}], l \in {0, 63, 64, 127}}
           : k \in 0..(MaxLebLen - 4)}

RawArgs == {[kind |-> "raw", n |-> WideInt(FALSE, <<>>), enc |-> e] : e \in RawSeqs}

LebArgs == UnsignedArgs \cup SignedArgs \cup RawArgs

\* ------------------------------------------------------------------------
\* The cursor alone on one encoding: ReadData(path, enc + trail, 0), and one
\* call of leb128u() or leb128s() on it.  out becomes the Integer returned.

LebInit ==
  /\ arg \in LebArgs
  /\ \E t \in Trails : file = arg.enc \o t
  /\ rpos = 0
  /\ out = <<>>
  /\ err = NoErr
  /\ pc = "leb"

\* the variables after a call on the cursor that left it as s
Returned(s) ==
  /\ rpos' = s.rpos
  /\ out' = <<[off |-> s.rd.fpos, bytes |-> s.rd.data, val |-> s.val]>>
  /\ err' = s.err
  /\ UNCHANGED <<file, arg>>

Leb128u ==
  /\ pc = "leb"
  /\ pc' = "leb128u"
  /\ Returned(leb128u_wide(File))

Leb128s ==
  /\ pc = "leb"
  /\ pc' = "leb128s"
  /\ Returned(leb128s_wide(File))

LebNext ==
  \/ Leb128u
  \/ Leb128s

LebSpec == LebInit /\ [][LebNext]_vars

\* ------------------------------------------------------------------------
\* The cursor alone: ReadData(path, file, base) and any calls on it, one
\* after another, each from where the one before left rpos, whether it
\* returned or raised.  out holds the last call: its name, its argument, rpos
\* before it, the ReadData of what it returned and what it printed.

\* the most bytes of the cursor
MaxBuf == 4

\* bytes a u32 that fits the model's integers may begin with and end in
BufBytes == {0, 2, 127, 128, 195}

BufLast == {0, 127}

Bufs ==
  SeqsUpTo(BufBytes, Min(3, MaxBuf))
  \cup UNION {{b \o t : t \in SeqsUpTo(BufLast, MaxBuf - 3) \ {<<>>}}
                : b \in {q \in SeqsUpTo(BufBytes, 3) : Len(q) = 3}}

\* the file offset the cursor starts at
Bases == {3}

\* the operand kinds of the table, one of each decoding
OperandKinds ==
  {"#0", "fid", "i32", "f32", "f64", "vb16", "vl", "mao", "bt", "t+", "lid+", "ref"}

CursorInit ==
  \/ /\ file \in Bufs
     /\ arg \in {[base |-> b] : b \in Bases}
     /\ rpos = 0
     /\ out = <<>>
     /\ err = NoErr
     /\ pc = "cursor"
  \/ /\ file \in HeaderFiles
     /\ arg = <<>>
     /\ rpos = 0
     /\ out = <<>>
     /\ err = NoErr
     /\ pc = "magic"

\* ReadData(path, file, base) as the variables hold it, nothing printed
Cursor == [Stream(file, arg.base, <<>>) EXCEPT !.rpos = rpos]

\* the variables after the call op(n) (of the operand kind) left the cursor as s
Called(s, op, n, kind) ==
  /\ rpos' = s.rpos
  /\ err' = s.err
  /\ out' = <<[op |-> op, n |-> n, kind |-> kind, before |-> rpos,
               off |-> s.rd.fpos, bytes |-> s.rd.data, val |-> s.val,
               lines |-> s.out]>>
  /\ UNCHANGED <<file, arg, pc>>

CallRead ==
  /\ pc = "cursor"
  /\ \E n \in 0..(MaxBuf + 1) : Called(read(Cursor, n), "read", n, "")

CallLoad ==
  /\ pc = "cursor"
  /\ \E n \in 0..(MaxBuf + 1) : Called(load(Cursor, n), "load", n, "")

\* reload(rpos) with a position the cursor has been at
CallReload ==
  /\ pc = "cursor"
  /\ \E p \in 0..rpos : Called(reload(Cursor, p), "reload", p, "")

CallByte ==
  /\ pc = "cursor"
  /\ Called(byte(Cursor), "byte", 0, "")

CallLong ==
  /\ pc = "cursor"
  /\ Called(long(Cursor), "long", 0, "")

CallLeb128 ==
  /\ pc = "cursor"
  /\ Called(leb128(Cursor), "leb128", 0, "")

CallLeb128u ==
  /\ pc = "cursor"
  /\ Called(leb128u(Cursor), "leb128u", 0, "")

CallLeb128s ==
  /\ pc = "cursor"
  /\ Called(leb128s(Cursor), "leb128s", 0, "")

CallUtf8 ==
  /\ pc = "cursor"
  /\ Called(utf8(Cursor), "utf8", 0, "")

\* one round of `for op in ins[0]` of instruction() on the cursor
CallOperand ==
  /\ pc = "cursor"
  /\ \E op \in OperandKinds : Called(operand(Cursor, op, 0), "operand", 0, op)

\* the calls on `file` main starts with: file.read(4) and file.long()
CursorNext ==
  \/ CallRead
  \/ CallLoad
  \/ CallReload
  \/ CallByte
  \/ CallLong
  \/ CallLeb128
  \/ CallLeb128u
  \/ CallLeb128s
  \/ CallUtf8
  \/ CallOperand
  \/ Magic
  \/ Version

CursorSpec == CursorInit /\ [][CursorNext]_vars

\* ------------------------------------------------------------------------
\* Reading the dump

\* a line with a hex column: dprint was given bytes
HasBytes(L) == L.off >= 0

\* the spans of the run, in emission order
Spans(o) == SelectSeq(o, HasBytes)

\* the offset right after a span
SpanEnd(L) == L.off + Len(L.bytes)

\* each span starts where the one before it ended, the first at start
Contiguous(sp, start) ==
  \A i \in 1..Len(sp) : sp[i].off = IF i = 1 THEN start ELSE SpanEnd(sp[i - 1])

\* the offset the spans reach
Reached(sp) == IF sp = <<>> THEN 0 ELSE SpanEnd(sp[Len(sp)])

\* the line of a mnemonic, and the line of one of its operands
IsAsm(L) == L.tag = "asm"

OperandTags ==
  {"--> (code:0x)", "--> (types=)", "--> <Integer object>", "--> align = ",
   "--> bt", "--> bytes", "--> f32", "--> f64", "--> lane = 0x", "--> offset = ",
   "--> {}", "-->"}

IsOperand(L) == L.tag \in OperandTags

IsScope(L) == IsAsm(L) /\ L.name \in {"block", "loop", "if"}

IsElseEnd(L) == IsAsm(L) /\ L.name \in {"else", "end"}

IsPlain(L) == IsAsm(L) /\ L.name \notin {"else", "end"}

\* The walks of the run, read off the dump alone.  A walk is a maximal run of
\* mnemonic and operand lines; any other line is printed between two calls of
\* expression from a section handler.  Along a walk:
\*   d       the scopes open, counted from the mnemonics
\*   closed  an `end` has been shown with no scope open
\*   n       the mnemonics shown so far
\*   w       the number of the walk
\*   pos     the offset right after the last span
\*   cend    the offset where the cursor being walked ends: the section's, or
\*           in a code section the entry's
\*   sec     the name of the section
WalkStart ==
  [d |-> 0, closed |-> FALSE, n |-> 0, w |-> 0, pos |-> 0, cend |-> 0, sec |-> ""]

WalkDepth(d, L) ==
  IF IsScope(L) THEN d + 1
  ELSE IF L.name = "end" THEN Max(0, d - 1)
  ELSE d

WalkEnd(st, L, size) ==
  IF L.tag = "section size = " THEN Min(SpanEnd(L) + L.val, size)
  ELSE IF L.tag = "code size = " THEN SpanEnd(L) + L.val
  ELSE st.cend

WalkStep(st, L, size) ==
  IF IsAsm(L)
  THEN [st EXCEPT !.d = WalkDepth(st.d, L),
                  !.closed = st.closed \/ (L.name = "end" /\ st.d = 0),
                  !.n = @ + 1,
                  !.pos = SpanEnd(L)]
  ELSE IF IsOperand(L) THEN [st EXCEPT !.pos = SpanEnd(L)]
  ELSE [d |-> 0, closed |-> FALSE, n |-> 0, w |-> st.w + 1,
        pos |-> IF HasBytes(L) THEN SpanEnd(L) ELSE st.pos,
        cend |-> WalkEnd(st, L, size),
        sec |-> IF L.tag = "Section (id=)" THEN L.name ELSE st.sec]

\* the walk state before each line of o from the i-th on, and after the last
RECURSIVE WalkScan(_, _, _, _)
WalkScan(o, i, st, size) ==
  IF i > Len(o) THEN <<st>>
  ELSE <<st>> \o WalkScan(o, i + 1, WalkStep(st, o[i], size), size)

\* Walks[i] is the walk state before line i of the run, Walks[Len(out) + 1]
\* the one after its last line
Walks == WalkScan(out, 1, WalkStart, Len(file))

\* a walk that showed an instruction is over at line i (or at the end of a run
\* that did not fail, i = Len(out) + 1) without having shown its closing `end`
EndsOpen(W, i) ==
  /\ W[i].n > 0
  /\ ~W[i].closed
  /\ IF i <= Len(out) THEN ~IsAsm(out[i]) /\ ~IsOperand(out[i]) ELSE err = NoErr

\* two mnemonics of one walk
SameWalk(W, i, j) ==
  /\ IsAsm(out[i]) /\ IsAsm(out[j])
  /\ W[i].w = W[j].w

\* ------------------------------------------------------------------------
\* The claims

\* C1: when the dump decodes a file without failure, the spans it emitted,
\* in emission order, are contiguous: the first starts at offset 0, each next
\* one starts where the one before ended, and the last ends at the file's
\* size.
C1_SpansCoverFile ==
  pc = "done" =>
    /\ Contiguous(Spans(out), 0)
    /\ Reached(Spans(out)) = Len(file)

\* a run that succeeded on a code section whose entry has bytes after the
\* closing `end`: header, section id and size, fields, instructions and
\* trailing unknown data are all among the spans
C1_Witness ==
  /\ pc = "done"
  /\ \E i \in 1..Len(out) : IsAsm(out[i]) /\ out[i].name = "end"
  /\ \E i \in 1..Len(out) : out[i].tag = "data_strings" /\ Len(out[i].bytes) > 0
  /\ \E i \in 1..Len(out) : out[i].tag = "unknown data: size = "

\* C2: every span emitted, whatever cursor it was read from, carries the
\* file's bytes at its offset, and no byte of the file is emitted twice (a
\* span never starts before the end of the span emitted before it).
C2_SpansAreFileBytes ==
  LET sp == Spans(out)
  IN \A i \in 1..Len(sp) :
       /\ SpanEnd(sp[i]) <= Len(file)
       /\ sp[i].bytes = SubSeq(file, sp[i].off + 1, SpanEnd(sp[i]))
       /\ i > 1 => sp[i].off >= SpanEnd(sp[i - 1])

\* a run that has shown a utf8 name (length prefix and payload in one span)
\* and an instruction read from the sub-cursor of a code entry
C2_Witness ==
  /\ \E i \in 1..Len(out) :
       out[i].tag = "name = " /\ Len(out[i].bytes) >= 2 /\ out[i].off > 0
  /\ \E i \in 1..Len(out) : IsAsm(out[i]) /\ out[i].off > 0
  /\ \E i \in 1..Len(out) : out[i].tag = "code size = "

\* C3: when an opcode selects an empty slot of the table, instruction()
\* fails with no line printed for that opcode (no span reaches past the
\* opcode's offset), and everything before it has been emitted in byte order
\* (the spans are contiguous from 0 up to the opcode's offset).
C3_UnknownOpcodeNotEmitted ==
  err.what = "unknown instruction" =>
    /\ err.exc = "NotImplementedError"
    /\ \A i \in 1..Len(out) : HasBytes(out[i]) => SpanEnd(out[i]) <= err.off
    /\ Contiguous(Spans(out), 0)
    /\ Reached(Spans(out)) = err.off
    /\ err.data = SubSeq(file, err.off + 1, err.off + Len(err.data))

\* the run failed on the empty slot 0x12 of the plane of 0xFC, after it had
\* shown an instruction of the same expression
C3_Witness ==
  /\ pc = "fail"
  /\ err.what = "unknown instruction"
  /\ err.data = <<252, 18>>
  /\ Len(out) > 0
  /\ IsAsm(out[Len(out)])

\* C4 as claimed: a walk goes on until it has shown the `end` that closes
\* depth 0, so that in a run that did not fail no walk is over before.
C4_WalkEndsWithEnd ==
  LET W == Walks
  IN \A i \in 1..(Len(out) + 1) : ~EndsOpen(W, i)

\* C4 as amended: a walk started at depth 0 goes on until it has shown the
\* `end` that closes depth 0 or its cursor has no bytes left, and then stops:
\* no instruction follows that `end`, each instruction is read at the depth
\* the mnemonics before it leave open (one more after block, loop or if, one
\* less after the `end` of a nested walk, the same after `else`), and a walk
\* that is over without its closing `end` has reached the end of its cursor.
C4_WalkEndsWithEndOrCursor ==
  LET W == Walks
  IN /\ \A i \in 1..Len(out) :
          IsAsm(out[i]) => ~W[i].closed /\ out[i].lvl = W[i].d
     /\ \A i \in 1..(Len(out) + 1) :
          EndsOpen(W, i) => W[i].pos = W[i].cend

\* a run that succeeded on a walk with a nested block: the block's own `end`,
\* then the `end` of depth 0, then the bytes the walk left unread
C4_Witness ==
  /\ pc = "done"
  /\ \E i \in 1..Len(out) : IsScope(out[i]) /\ out[i].lvl = 0
  /\ \E i \in 1..Len(out) : IsAsm(out[i]) /\ out[i].name = "end" /\ out[i].lvl = 1
  /\ \E i \in 1..(Len(out) - 1) :
       /\ IsAsm(out[i]) /\ out[i].name = "end" /\ out[i].lvl = 0
       /\ out[i + 1].tag = "unknown data: size = "

\* C5 as claimed: every `else` and `end` is shown one step to the left of the
\* instructions of the body it delimits (the instructions of its walk read at
\* the same depth), and so is the final `end` of a function body.
C5_ElseEndOneStepLeft ==
  LET W == Walks
  IN \A i, j \in 1..Len(out) :
       SameWalk(W, i, j) /\ IsPlain(out[i]) /\ IsElseEnd(out[j])
         /\ W[i].d = W[j].d
         /\ (out[j].name = "end" \/ W[j].d > 0)
       => out[j].ind = out[i].ind - indent_step

\* C5 as amended: an `else` or `end` met with a scope open is shown one step
\* to the left of the instructions of the body it delimits, and one met at
\* depth 0, as the final `end` of a function body is, at the very indentation
\* of the body's instructions; instructions of one walk are one step further
\* right for each scope open, before an `else` and after it; and a function
\* body's instructions at depth 0 are one step right of its `code[i]` line.
C5_ElseEndLeftUnlessDepth0 ==
  LET W == Walks
  IN /\ \A i, j \in 1..Len(out) :
          SameWalk(W, i, j) /\ IsPlain(out[i]) /\ IsElseEnd(out[j])
            /\ W[i].d = W[j].d
          => out[j].ind = out[i].ind - (IF W[j].d = 0 THEN 0 ELSE indent_step)
     /\ \A i, j \in 1..Len(out) :
          SameWalk(W, i, j) /\ IsPlain(out[i]) /\ IsPlain(out[j])
          => out[j].ind - out[i].ind = (W[j].d - W[i].d) * indent_step
     /\ \A i \in 1..Len(out) :
          IsAsm(out[i]) /\ W[i].sec = "Code" /\ W[i].d = 0
          => out[i].ind = indent_step

\* a function body with a block in it: an instruction inside the block, the
\* block's `end` one step to its left, and the body's final `end` under the
\* `block` itself
C5_Witness ==
  LET W == Walks
  IN \E i, j, k, l \in 1..Len(out) :
       /\ i < j /\ j < k /\ k < l
       /\ W[i].sec = "Code"
       /\ IsScope(out[i]) /\ W[i].d = 0
       /\ IsPlain(out[j]) /\ W[j].d = 1
       /\ out[k].name = "end" /\ IsAsm(out[k]) /\ W[k].d = 1
       /\ out[k].ind = out[j].ind - indent_step
       /\ out[l].name = "end" /\ IsAsm(out[l]) /\ W[l].d = 0
       /\ out[l].ind = out[i].ind

\* C6 as claimed: the block type 0x40 is shown as empty, 0x7F as i32, and any
\* other LEB128 whose signed value is negative as a type index.
C6_NegativeIsTypeIndex ==
  \A i \in 1..Len(out) :
    out[i].tag = "--> bt" =>
      /\ out[i].bytes = <<64>> => out[i].name = "(empty)"
      /\ out[i].bytes = <<127>> => out[i].name = "i32"
      /\ out[i].bytes \notin {<<64>>, <<127>>} /\ decode_leb128s(out[i].bytes) < 0
         => out[i].name = "" /\ out[i].val = decode_leb128s(out[i].bytes)

\* C6 as amended: the block type 0x40 is shown as empty; any other whose first
\* byte has bit 6 set as the value type that byte names (0x7F as i32, a code
\* out of the table as a placeholder); and one whose first byte has bit 6 clear
\* as a type index, the signed value of the whole LEB128.
C6_Bit6IsValueType ==
  \A i \in 1..Len(out) :
    out[i].tag = "--> bt" =>
      /\ out[i].bytes[1] = 64 => out[i].name = "(empty)"
      /\ out[i].bytes[1] = 127 => out[i].name = "i32"
      /\ Bit(out[i].bytes[1], 6) /\ out[i].bytes[1] # 64
         => /\ out[i].name = IF VALTYPE(out[i].bytes[1]) # None
                             THEN VALTYPE(out[i].bytes[1]) ELSE "(valtype:0x)"
            /\ out[i].val = out[i].bytes[1]
      /\ ~Bit(out[i].bytes[1], 6)
         => out[i].name = "" /\ out[i].val = decode_leb128s(out[i].bytes)

\* a block type of two bytes whose first has bit 6 clear and whose signed
\* value is negative, shown as the type index -128
C6_Witness ==
  \E i \in 1..Len(out) :
    /\ out[i].tag = "--> bt"
    /\ out[i].bytes = <<128, 127>>
    /\ out[i].name = ""
    /\ out[i].val = -128

\* C7: the operand of i32.const and of i64.const is shown as the signed value
\* of its LEB128, negative whenever bit 6 of the last byte is set.
C7_ConstIsSigned ==
  \A i \in 1..(Len(out) - 1) :
    IsAsm(out[i]) /\ out[i].name \in {"i32.const", "i64.const"}
      /\ IsOperand(out[i + 1])
    => /\ out[i + 1].val = decode_leb128s(out[i + 1].bytes)
       /\ Bit(out[i + 1].bytes[Len(out[i + 1].bytes)], 6) => out[i + 1].val < 0

\* C8: v128.const and i8x16.shuffle with 16 bytes or more after the opcode
\* decode: the line after the mnemonic's is the span of those 16 bytes.
C8_SixteenBytesOperand ==
  LET W == Walks
  IN \A i \in 1..Len(out) :
       IsAsm(out[i]) /\ out[i].name \in {"v128.const", "i8x16.shuffle"}
         /\ SpanEnd(out[i]) + 16 <= W[i].cend
       => /\ err.exc # "NotImplementedError"
          /\ i < Len(out)
          /\ IsOperand(out[i + 1])
          /\ out[i + 1].off = SpanEnd(out[i])
          /\ out[i + 1].bytes
               = SubSeq(file, SpanEnd(out[i]) + 1, SpanEnd(out[i]) + 16)

\* the lines that show a value type or a reference type where it is decoded
TypeTags == {"valtype = ", "type = ", "-->", "{valtype}", "{reftype}", "{cvt}"}

ShowsUnknownType(L) ==
  /\ L.tag \in TypeTags
  /\ HasBytes(L)
  /\ L.name \in {None, "(valtype:0x)", "(reftype:0x)"}

\* C9: wherever a value type or a reference type is decoded, a code out of
\* its table makes the decode fail instead of continuing: the line that shows
\* such a code is the last of a run that failed on it.
C9_UnknownTypeFails ==
  \A i \in 1..Len(out) :
    ShowsUnknownType(out[i]) =>
      /\ i = Len(out)
      /\ err.what \in {"unknown valtype", "unknown reftype"}

\* C10: in an element segment of mode 1, 2 or 3 only a non-zero elemkind byte
\* fails; the byte 0 is shown as funcref and the funcidx vector follows.
C10_ElemkindZeroIsFuncref ==
  err.what = "unknown elemkind" => err.data # <<0>>

\* C11: a data segment of mode 2 whose memidx is there to read decodes: the
\* line after its mode line is the span of the memidx, right after the mode,
\* and the run does not fail on it.
C11_DataModeTwoDecodes ==
  \A i \in 1..Len(out) :
    out[i].tag = "data[] (mode=)" /\ out[i].val = 2 /\ err.exc # "IndexError"
    => /\ err.exc # "AttributeError"
       /\ i < Len(out)
       /\ out[i + 1].tag = "memidx = "
       /\ out[i + 1].off = SpanEnd(out[i])

\* v128.load8_lane with align 0, offset 16 and lane 3 is decoded from the line
\* out[i] on: out[i] is the mnemonic's line, and the three operand bytes
\* follow its span in the file, inside its cursor.  Its five bytes
\* FD 54 00 10 03 start at Load8LaneOff(i).
Load8LaneAt(W, i) ==
  /\ IsAsm(out[i])
  /\ out[i].name = "v128.load8_lane"
  /\ SpanEnd(out[i]) + 3 <= W[i].cend
  /\ SubSeq(file, SpanEnd(out[i]) + 1, SpanEnd(out[i]) + 3) = <<0, 16, 3>>

Load8LaneOff(i) == SpanEnd(out[i]) - 2

\* the lines out[j], out[j + 1], ... are spans that follow one another from
\* file offset k on and hold the byte groups bs[1], bs[2], ...
RECURSIVE LinesBeside(_, _, _)
LinesBeside(j, k, bs) ==
  \/ bs = <<>>
  \/ /\ j <= Len(out)
     /\ out[j].off = k
     /\ out[j].bytes = bs[1]
     /\ LinesBeside(j + 1, k + Len(bs[1]), Tail(bs))

\* C12 as stated: FD 54 00 10 03 is dumped as five lines, one each for the
\* prefix byte, the sub-opcode, align = 0, offset = 16 and lane = 0x03.
C12_FiveLines ==
  LET W == Walks
  IN \A i \in 1..Len(out) :
       Load8LaneAt(W, i) =>
         \E j \in 1..Len(out) :
           /\ LinesBeside(j, Load8LaneOff(i), <<(<<253>>), (<<84>>), (<<0>>), (<<16>>), (<<3>>)>>)
           /\ j + 4 <= Len(out)
           /\ out[j + 2].tag = "--> align = " /\ out[j + 2].val = 0
           /\ out[j + 3].tag = "--> offset = " /\ out[j + 3].val = 16
           /\ out[j + 4].tag = "--> lane = 0x" /\ out[j + 4].val = 3

\* C12, amended: FD 54 00 10 03 is dumped as four lines: the mnemonic beside
\* the prefix byte and the sub-opcode together, then align = 0, offset = 16
\* and lane = 0x03, each beside its own byte and two columns further in.
C12_FourLines ==
  LET W == Walks
  IN \A i \in 1..Len(out) :
       Load8LaneAt(W, i) =>
         /\ LinesBeside(i, Load8LaneOff(i), <<(<<253, 84>>), (<<0>>), (<<16>>), (<<3>>)>>)
         /\ i + 3 <= Len(out)
         /\ out[i + 1].tag = "--> align = " /\ out[i + 1].val = 0
         /\ out[i + 2].tag = "--> offset = " /\ out[i + 2].val = 16
         /\ out[i + 3].tag = "--> lane = 0x" /\ out[i + 3].val = 3
         /\ \A k \in 1..3 : out[i + k].ind = out[i].ind + 2
         /\ \A j \in 1..Len(out) :
              HasBytes(out[j]) /\ out[j].off >= Load8LaneOff(i)
                /\ out[j].off < Load8LaneOff(i) + 5 => j \in i..(i + 3)

C12_Witness ==
  LET W == Walks
  IN /\ pc = "done"
     /\ \E i \in 1..Len(out) : Load8LaneAt(W, i) /\ Len(out) >= i + 3

\* C13: leb128u() on an unsigned LEB128 encoding of n < 2^64, the shortest
\* or one padded with zero groups up to 10 bytes, returns n with the bytes of
\* that encoding and leaves the cursor right after them.
C13_UnsignedRoundTrip ==
  pc = "leb128u" /\ arg.kind = "u" =>
    /\ err = NoErr
    /\ out[1].val = arg.n
    /\ out[1].bytes = arg.enc
    /\ out[1].off = 0
    /\ rpos = Len(arg.enc)

C13_Witness ==
  /\ pc = "leb128u"
  /\ arg.kind = "u"
  /\ Len(arg.n.mag) > 32
  /\ Len(arg.enc) > ShortestLen(arg.n.mag)
  /\ Len(file) > Len(arg.enc)
  /\ out[1].val = arg.n

\* C14: leb128s() on the canonical signed LEB128 encoding of n, for n from
\* -2^63 up to 2^63 - 1, returns n, which is negative exactly when bit 6 of
\* the encoding's last byte is set.
C14_SignedRoundTrip ==
  pc = "leb128s" /\ arg.kind = "s" =>
    /\ err = NoErr
    /\ out[1].val = arg.n
    /\ out[1].bytes = arg.enc
    /\ out[1].val.neg = Bit(arg.enc[Len(arg.enc)], 6)

C14_Witness ==
  /\ pc = "leb128s"
  /\ arg.kind = "s"
  /\ arg.n.neg
  /\ Len(arg.n.mag) = MaxBits
  /\ Len(arg.enc) = MaxLebLen
  /\ out[1].val = arg.n

WideMinusOne == WideInt(TRUE, WideOne)

\* the bytes leb128s() returned end in 0x7F
EndsIn7F == pc = "leb128s" /\ err = NoErr /\ out[1].bytes[Len(out[1].bytes)] = 127

\* C15 as stated: every LEB128 byte sequence whose last byte is 0x7F decodes
\* as signed to -1, whatever its continuation bytes.
C15_Last7FIsMinusOne == EndsIn7F => out[1].val = WideMinusOne

\* C15, amended: a LEB128 byte sequence whose last byte is 0x7F decodes as
\* signed to a negative number, which is -1 exactly when every continuation
\* byte before the 0x7F is 0xFF.
C15_Last7FAfterFFsIsMinusOne ==
  EndsIn7F =>
    /\ out[1].val.neg
    /\ out[1].val = WideMinusOne
         <=> \A i \in 1..(Len(out[1].bytes) - 1) : out[1].bytes[i] = 255

C15_Witness ==
  /\ EndsIn7F
  /\ Len(out[1].bytes) = 3
  /\ out[1].val = WideMinusOne

\* ------------------------------------------------------------------------
\* The cursor alone

\* one whole LEB128: bytes with the high bit and then one without
IsLeb(b) ==
  /\ Len(b) >= 1
  /\ b[Len(b)] < 128
  /\ \A i \in 1..(Len(b) - 1) : b[i] >= 128

\* a call has been made on the cursor alone; Call is the last one
Made == pc = "cursor" /\ out # <<>>

Call == out[1]

\* the bytes between rpos before the last call and rpos after it
Consumed == SubSeq(file, Call.before + 1, rpos)

RECURSIVE LineBytes(_, _)
LineBytes(lines, i) ==
  IF i > Len(lines) THEN <<>> ELSE lines[i].bytes \o LineBytes(lines, i + 1)

\* the lines an operand of the kind printed are each beside all the bytes
\* its decoding needs
OperandWhole(kind, lines) ==
  CASE kind \in {"#0", "vl", "ref"} -> Len(lines) = 1 /\ Len(lines[1].bytes) = 1
    [] kind \in {"fid", "i32", "bt"} -> Len(lines) = 1 /\ IsLeb(lines[1].bytes)
    [] kind = "f32" -> Len(lines) = 1 /\ Len(lines[1].bytes) = 4
    [] kind = "f64" -> Len(lines) = 1 /\ Len(lines[1].bytes) = 8
    [] kind = "vb16" -> Len(lines) = 1 /\ Len(lines[1].bytes) = 16
    [] kind = "mao" -> Len(lines) = 2 /\ IsLeb(lines[1].bytes) /\ IsLeb(lines[2].bytes)
    [] kind = "t+" -> /\ Len(lines) >= 1
                      /\ IsLeb(lines[1].bytes)
                      /\ Len(lines) = 1 + lines[1].val
                      /\ \A i \in 2..Len(lines) : Len(lines[i].bytes) = 1
    [] kind = "lid+" -> /\ Len(lines) >= 1
                        /\ Len(lines) = 1 + lines[1].val
                        /\ \A i \in 1..Len(lines) : IsLeb(lines[i].bytes)
    [] OTHER -> FALSE

\* what the call c returned is built from all the bytes it needs
Whole(c) ==
  CASE c.op = "byte" -> Len(c.bytes) = 1
    [] c.op = "load" -> Len(c.bytes) = c.n
    [] c.op = "long" -> Len(c.bytes) = 4
    [] c.op \in {"leb128", "leb128u", "leb128s"} -> IsLeb(c.bytes)
    [] c.op = "utf8" -> \E k \in 1..Len(c.bytes) :
                          /\ IsLeb(SubSeq(c.bytes, 1, k))
                          /\ Len(c.bytes) = k + c.val
    [] c.op = "operand" -> OperandWhole(c.kind, c.lines)
    [] OTHER -> TRUE

\* the bytes the call c returned or printed beside
Returns(c) == IF c.op = "operand" THEN LineBytes(c.lines, 1) ELSE c.bytes

\* main's file is the magic and fewer than 4 bytes more
ShortVersion ==
  /\ pc \in {"version", "loop", "done", "fail"}
  /\ Len(file) >= 4
  /\ Len(file) < 8
  /\ SubSeq(file, 1, 4) = FILE_MAGIC

\* C16: a call other than read() that returns has consumed, and returned or
\* printed beside, all the bytes its decoding needs, bytes of the cursor: it
\* raises when the cursor ends first.  And main on the magic and fewer than
\* 4 bytes more raises after the magic's line, without a version line.
C16_ShortReadsFail ==
  /\ Made /\ err = NoErr /\ Call.op \notin {"read", "reload"} =>
       Whole(Call) /\ Returns(Call) = Consumed
  /\ ShortVersion =>
       /\ pc \in {"version", "fail"}
       /\ \A i \in 1..Len(out) : out[i].tag # "version = "
       /\ pc = "fail" => Len(out) = 1 /\ out[1].tag = "magic = "

C16_Witness ==
  /\ ShortVersion
  /\ Len(file) = 6
  /\ pc = "fail"
  /\ err.exc = "IndexError"

\* ------------------------------------------------------------------------
\* Frames

\* the last line before line i with the tag, 0 when there is none
RECURSIVE LastTagged(_, _)
LastTagged(i, tag) ==
  IF i <= 1 THEN 0
  ELSE IF out[i - 1].tag = tag THEN i - 1
  ELSE LastTagged(i - 1, tag)

\* the last line before line i beside bytes, 0 when there is none
RECURSIVE LastSpan(_)
LastSpan(i) ==
  IF i <= 1 THEN 0
  ELSE IF HasBytes(out[i - 1]) THEN i - 1
  ELSE LastSpan(i - 1)

\* where the bytes the size line out[j] frames end: file.read(ssz) stops at the
\* end of the file, section.load(csz) does not
FrameEnd(j) ==
  IF out[j].tag = "section size = "
  THEN Min(SpanEnd(out[j]) + out[j].val, Len(file))
  ELSE SpanEnd(out[j]) + out[j].val

\* the size line of the frame that holds the byte at offset o, going by the
\* lines before line i: the code entry's if o is inside the last entry, else
\* the section's
FrameOf(i, o) ==
  IF /\ LastTagged(i, "code size = ") > LastTagged(i, "section size = ")
     /\ o < FrameEnd(LastTagged(i, "code size = "))
  THEN LastTagged(i, "code size = ")
  ELSE LastTagged(i, "section size = ")

IsUnknownData(L) == L.tag = "unknown data: size = "

\* C17: in a section other than Custom and in a code entry, the bytes of the
\* frame left after what was decoded are shown by a line `unknown data: size =
\* N` without bytes, N > 0, and then one span of those N bytes, which ends
\* where the frame ends; load() does not fail there (a run that fails next
\* fails in the header of the next section), and what follows is the next code
\* entry or the next section, which starts where the frame ended.
C17_TrailingBytesAreUnknownData ==
  /\ \A i \in 1..Len(out) :
       IsUnknownData(out[i]) =>
         /\ out[i].val > 0
         /\ ~HasBytes(out[i])
         /\ i < Len(out)
         /\ out[i + 1].tag = "data_strings"
         /\ Len(out[i + 1].bytes) = out[i].val
         /\ LastSpan(i) > 0
         /\ out[i + 1].off = SpanEnd(out[LastSpan(i)])
         /\ FrameOf(i, out[i + 1].off) > 0
         /\ SpanEnd(out[i + 1]) = FrameEnd(FrameOf(i, out[i + 1].off))
         /\ out[LastTagged(i, "Section (id=)")].name # "Custom"
         /\ i + 1 = Len(out) /\ pc = "fail" => err.exc # "IOError"
         /\ i + 1 < Len(out) =>
              \/ out[i + 2].tag \in {"Section (id=)", "code[]"}
              \/ IsUnknownData(out[i + 2])
  /\ \A k \in 1..Len(out) :
       out[k].tag = "Section (id=)" /\ LastTagged(k, "section size = ") > 0 =>
         out[k].off = FrameEnd(LastTagged(k, "section size = "))
  /\ pc = "done" /\ LastTagged(Len(out) + 1, "section size = ") > 0 =>
       Reached(Spans(out)) = FrameEnd(LastTagged(Len(out) + 1, "section size = "))

\* a code entry with bytes left after its `end`, in a section with bytes left
\* after its entries, and another section after it
C17_Witness ==
  /\ pc = "done"
  /\ \E i \in 1..Len(out) :
       /\ IsUnknownData(out[i])
       /\ out[LastTagged(i, "Section (id=)")].name = "Code"
       /\ FrameOf(i, out[i + 1].off) = LastTagged(i, "code size = ")
       /\ \E k \in (i + 2)..Len(out) : out[k].tag = "Section (id=)"

\* the first line after line j that names a section, Len(out) + 1 when no
\* line does
RECURSIVE NextSection(_)
NextSection(j) ==
  IF j >= Len(out) THEN Len(out) + 1
  ELSE IF out[j + 1].tag = "Section (id=)" THEN j + 1
  ELSE NextSection(j + 1)

\* C18: the handler of a section is handed exactly payload_size bytes, those
\* right after the size field; every span it prints lies inside them; and the
\* next section id is read at the byte right after them.
C18_FrameIsPayloadSize ==
  \A j \in 1..Len(out) :
    out[j].tag = "section size = " =>
      /\ SpanEnd(out[j]) + out[j].val <= Len(file)
      /\ \A i \in (j + 1)..(NextSection(j) - 1) :
           HasBytes(out[i]) =>
             /\ out[i].off >= SpanEnd(out[j])
             /\ SpanEnd(out[i]) <= SpanEnd(out[j]) + out[j].val
      /\ NextSection(j) <= Len(out) =>
           out[NextSection(j)].off = SpanEnd(out[j]) + out[j].val

\* C19: after any calls on a cursor, those that raised included, rpos is
\* between 0 and the length of the buffer and never behind where it was; what
\* a call returned starts at file offset base + rpos-before and is the bytes up
\* to rpos, so that base + rpos is the offset of the next unread byte; and
\* reload(p), p a position the cursor has been at, returns the bytes from p up
\* to rpos and leaves rpos where it was.
C19_CursorPosition ==
  pc = "cursor" =>
    /\ rpos >= 0
    /\ rpos <= Len(file)
    /\ Made => Call.before <= rpos
    /\ Made /\ err = NoErr /\ Call.op \notin {"reload", "operand"} =>
         /\ Call.off = arg.base + Call.before
         /\ Call.bytes = Consumed
         /\ Call.off + Len(Call.bytes) = arg.base + rpos
    /\ Made /\ Call.op = "reload" =>
         /\ err = NoErr
         /\ rpos = Call.before
         /\ Call.off = arg.base + Call.n
         /\ Call.bytes = SubSeq(file, Call.n + 1, rpos)

\* reload(p) of two bytes or more from a position past the start
C19_Witness ==
  /\ Made
  /\ Call.op = "reload"
  /\ Call.before - Call.n >= 2
  /\ Call.n >= 1
  /\ Call.bytes = SubSeq(file, Call.n + 1, Call.before)

====
